---- MODULE Spec2Model ----
(***************************************************************************)
(* Process orchestration core of AutomationMenu:                           *)
(*   ScriptExecutionManager (core/script_execution_manager.py),            *)
(*   ScriptRunner           (core/script_runner.py),                       *)
(*   ExecHistory            (models/exechistory.py),                       *)
(*   SequenceManager.run_sequence / _sequence_runner (ui/sequence_manager),*)
(*   AutomationMenuWindow._pause_resume_script / _stop_script.             *)
(*                                                                         *)
(* Threads: "seq" is the thread run_sequence starts (_mini_runner), "sync" *)
(* is a background thread calling run_script_sync; the Tk main thread runs *)
(* the button handlers.  A thread holds one ScriptRunner at a time, the one *)
(* of its create_runner scope, so a runner's fields are kept per thread:   *)
(* they are those of a new ScriptRunner when the thread constructs one and *)
(* again once the scope has ended and nothing refers to the runner.  A     *)
(* runner is named by a number (step i's runner is i, the k-th             *)
(* run_script_sync's is NumSteps + k) and the ExecHistory it creates in    *)
(* _create_process carries that number.                                    *)
(***************************************************************************)
EXTENDS Integers, Sequences, FiniteSets, TLC

\* ---------------------------------------------------------------- bounds
NumSteps == 3          \* steps of the sequence that is run
MaxSyncRuns == 1       \* calls of run_script_sync
MaxUiOps == 2          \* clicks on the Stop and Pause/Resume buttons
MaxLines == 2          \* lines the children write, all runs together
MaxKids == 1           \* descendant processes a child has at a time
PipeLines == 2         \* lines a pipe holds before a write to it blocks
MaxPercent == 100      \* largest percentage a script passes to set_progress

\* ------------------------------------------------------- program values
NoExitCode == -1       \* ExecHistory.exit_code = None
KillCode == 1          \* exit code of a child ended by Popen.kill()
ExitCodes == {0, 1}    \* exit codes a child can report by itself

Threads == {"seq", "sync"}

\* the numbers naming the runners and their records
Records == 1..(NumSteps + MaxSyncRuns)

\* OutputStyleTags and SysInstructions (models/enums.py)
SYSERROR == "suite_syserror"
SYSINFO == "suite_sysinfo"
SYSWARNING == "suite_syswarning"
SUCCESS == "suite_success"
CLEAROUTPUT == "SI_ClearOutput"
PROCESSTERMINATED == "SI_ProcessTerminated"
ERROR == "suite_error"
INFO == "suite_info"

\* api/script_api.py lines 14-15
MESSAGE_START == "__API_START__"
MESSAGE_END == "__API_END__"

VARIABLES
    lock,            \* ScriptExecutionManager._lock: "free" or the holder
    current_runner,  \* ScriptExecutionManager.current_runner (0 = None)
    paused,          \* ScriptExecutionManager._paused
    runner,          \* thread -> the runner of its create_runner scope
    proc,            \* thread -> its runner's child: "none" (current_process
                     \*   is None), "running", "suspended", "exited"
    oscode,          \* thread -> exit code the OS holds for that child
    r_terminated,    \* thread -> its runner's _terminated
    rec,             \* thread -> its runner's ExecHistory (_exec_item)
    queue,           \* the shared output queue, oldest first
    pc,              \* thread -> position
    exc,             \* thread -> exception in flight inside the scope
    raised,          \* thread -> exception that left the thread's call
    bodyExc,         \* thread -> exception the scope's body raised (history)
    step,            \* _sequence_runner: index of the step of the for loop
    exit_code,       \* _sequence_runner: local exit_code
    terminated,      \* _sequence_runner: local terminated
    effective_stop,  \* _sequence_runner: local effective_stop
    run_success,     \* _sequence_runner: local run_success
    seq_stop,        \* sequence.stop_on_error
    abortAt,         \* first step that was terminated or failed under
                     \*   effective stop (history, 0 = none)
    abortWhy,        \* ... and which of the two: "user", "error" ("none")
    onFinished,      \* calls of run_sequence's on_finished
    syncRuns,        \* calls of run_script_sync so far
    uiPc,            \* Tk thread: "idle", or inside terminate()
    uiOps,           \* button clicks so far
    btnStop,         \* the Stop button is enabled
    btnPause,        \* the Pause/Resume button is enabled
    lastCall,        \* the last two pause/resume calls: the runner and the
                     \*   process they found, and what they returned
    termCalled,      \* thread -> states its runner's child was in when
                     \*   terminate() was called on the runner (history)
    in_breakpoint,   \* thread -> its runner's _in_breakpoint
    errpipe,         \* thread -> stderr lines its child wrote, not yet read
    childWait,       \* thread -> what its child blocks on: "no", "response"
                     \* (and "stderr": a write to the full stderr pipe)
                     \*   (_get_api_response), "debugger" (pdb prompt)
    stdin,           \* thread -> what was written to its child's stdin
    nlines,          \* lines the children have written so far
    qhead,           \* AsyncOutputController: queue items taken so far
    uiq,             \* Tk: the scheduled _handle_ui_update calls, in order
    transcript,      \* the text widget: the lines inserted
    rec_out,         \* record number -> ExecHistory.output
    rec_end,         \* record number -> assignments made to ExecHistory.end
    btnContinue,     \* the Continue button is enabled
    calls,           \* the API callbacks called, in order
    respq,           \* Tk: the send_api_response calls scheduled by after()
    contLog,         \* what the Continue clicks did (history)
    c_phase,         \* one API call followed through the protocol: where
    c_call,          \*   the script's call
    c_wire,          \*   the line _send printed
    c_result,        \*   what _normalize_queue_item returned for it
    lastTerm,        \* the last terminate() that found a process: what it
                     \*   did, in order, and how it ended (history)
    uiTouch,         \* the widget operations made so far, each with the
                     \*   thread that made it (history)
    nclear,          \* times the transcript was cleared (history)
    asyncRun,        \* the last run_script_async call: how it ended, the
                     \*   thread it started, the on_finished calls
    kids,            \* thread -> live descendant processes of its child
    pdb_echoed,      \* thread -> pdb has shown the line its child halted at
    direct           \* a script of the menu was chosen (ScriptMenuItem.run_script)
                     \*   (script_process_wrapper), not run_script_sync

coordVars == << lock, current_runner, paused >>
runnerVars == << runner, proc, oscode, r_terminated, rec, termCalled >>
threadVars == << pc, exc, raised, bodyExc >>
seqVars == << step, exit_code, terminated, effective_stop, run_success,
              seq_stop, abortAt, abortWhy, onFinished >>
uiVars == << uiPc, uiOps, btnStop, btnPause, lastCall >>

readerVars == << in_breakpoint, errpipe, childWait, stdin, nlines >>
dispVars == << qhead, uiq, transcript, rec_out, rec_end, btnContinue, calls,
               respq, contLog >>
codecVars == << c_phase, c_call, c_wire, c_result >>
histVars == << lastTerm, uiTouch, nclear, asyncRun >>
ioVars == << readerVars, dispVars, codecVars, histVars, kids, pdb_echoed,
            direct >>

vars == << coordVars, runnerVars, threadVars, seqVars, uiVars, queue,
           syncRuns, ioVars >>

\* ----------------------------------------------------------- queue items
\* A dict put on the queue: 'line' (the message, by kind), 'tag', 'finished',
\* 'exec_item' (0 = None, -1 = key absent), and the numbers formatted into
\* the message (step index i, exit code e).
\* A child's line keeps its characters in 'text' (a sequence of tokens) and
\* the reader's 'breakpoint' key is carried as a flag (FALSE = key absent).
Item(line, tag, finished, item, i, e) ==
    [line |-> line, tag |-> tag, finished |-> finished, exec_item |-> item,
     i |-> i, e |-> e, text |-> << >>, breakpoint |-> FALSE]

Control(instr) == Item(instr, "control", FALSE, -1, 0, NoExitCode)

\* Queue.put: one item, or several in a row
Put(q, item) == Append(q, item)
PutAll(q, items) == q \o items

\* ------------------------------------------------------ the API protocol
\* A line of text is a sequence of tokens: punctuation P, a run of plain
\* characters T, a number N.  The sentinels are runs of plain characters.
Tok(k, s, n) == [k |-> k, s |-> s, n |-> n]
P(s) == Tok("p", s, 0)
T(s) == Tok("t", s, 0)
N(n) == Tok("n", "", n)
QUOTE == P("\"")

\* Python values of a message's data: str, int/float, bool, None
Str(s) == [k |-> "str", s |-> s, n |-> 0]
Num(n) == [k |-> "num", s |-> "", n |-> n]
Bool(b) == [k |-> "bool", s |-> IF b THEN "true" ELSE "false", n |-> 0]
NoneVal == [k |-> "none", s |-> "", n |-> 0]

\* a dict is the sequence of its << key, value >> pairs, in insertion order
RECURSIVE Get(_, _, _)
Get(d, key, default) ==
    IF d = << >> THEN default
    ELSE IF d[1][1] = key THEN d[1][2] ELSE Get(Tail(d), key, default)

\* json.dumps
DumpsStr(s) == << QUOTE, T(s), QUOTE >>
DumpsVal(v) ==
    IF v.k = "str" THEN DumpsStr(v.s)
    ELSE IF v.k = "num" THEN << N(v.n) >>
    ELSE IF v.k = "bool" THEN << P(v.s) >>
    ELSE << P("null") >>

RECURSIVE DumpsPairs(_)
DumpsPairs(d) ==
    IF d = << >> THEN << >>
    ELSE DumpsStr(d[1][1]) \o << P(":") >> \o DumpsVal(d[1][2])
         \o (IF Len(d) > 1 THEN << P(",") >> \o DumpsPairs(Tail(d))
             ELSE << >>)

DumpsDict(d) == << P("{") >> \o DumpsPairs(d) \o << P("}") >>

\* script_api._send lines 60-65: the line print() writes to stdout
_send(msg_type, data) ==
    << T(MESSAGE_START) >>
    \o << P("{") >> \o DumpsStr("type") \o << P(":") >> \o DumpsStr(msg_type)
    \o << P(",") >> \o DumpsStr("data") \o << P(":") >> \o DumpsDict(data)
    \o << P("}") >>
    \o << T(MESSAGE_END) >>

\* json.loads, for the texts json.dumps produces and what is left of them
\* when they are cut: anything else is a JSONDecodeError (ok = FALSE)
LoadsFail == [ok |-> FALSE, v |-> NoneVal, pairs |-> << >>, next |-> 0]

IsStrAt(toks, i) ==
    /\ i + 2 <= Len(toks)
    /\ toks[i] = QUOTE /\ toks[i + 1].k = "t" /\ toks[i + 2] = QUOTE

LoadsVal(toks, i) ==
    IF i > Len(toks) THEN LoadsFail
    ELSE IF toks[i] = QUOTE
    THEN IF IsStrAt(toks, i)
         THEN [LoadsFail EXCEPT !.ok = TRUE, !.v = Str(toks[i + 1].s),
                                !.next = i + 3]
         ELSE LoadsFail
    ELSE IF toks[i].k = "n"
    THEN [LoadsFail EXCEPT !.ok = TRUE, !.v = Num(toks[i].n), !.next = i + 1]
    ELSE IF toks[i] \in {P("true"), P("false")}
    THEN [LoadsFail EXCEPT !.ok = TRUE, !.v = Bool(toks[i].s = "true"),
                           !.next = i + 1]
    ELSE LoadsFail

RECURSIVE LoadsPairs(_, _, _)
LoadsPairs(toks, i, acc) ==
    IF ~IsStrAt(toks, i) \/ i + 3 > Len(toks) THEN LoadsFail
    ELSE IF toks[i + 3] # P(":") THEN LoadsFail
    ELSE LET val == LoadsVal(toks, i + 4)
             got == Append(acc, << toks[i + 1].s, val.v >>)
         IN IF ~val.ok \/ val.next > Len(toks) THEN LoadsFail
            ELSE IF toks[val.next] = P(",")
            THEN LoadsPairs(toks, val.next + 1, got)
            ELSE IF toks[val.next] = P("}")
            THEN [LoadsFail EXCEPT !.ok = TRUE, !.pairs = got,
                                   !.next = val.next + 1]
            ELSE LoadsFail

\* the decoded message: ok, its 'type' and its 'data'
Loads(toks) ==
    LET head == << P("{") >> \o DumpsStr("type") \o << P(":") >>
        mid == << P(",") >> \o DumpsStr("data") \o << P(":"), P("{") >>
        bad == [ok |-> FALSE, type |-> "", data |-> << >>]
    IN IF Len(toks) < Len(head) + 3 + Len(mid) THEN bad
       ELSE IF SubSeq(toks, 1, Len(head)) # head THEN bad
       ELSE IF ~IsStrAt(toks, Len(head) + 1) THEN bad
       ELSE IF SubSeq(toks, Len(head) + 4, Len(head) + 3 + Len(mid)) # mid
       THEN bad
       ELSE LET d == LoadsPairs(toks, Len(head) + 4 + Len(mid), << >>)
            IN IF d.ok /\ d.next = Len(toks) /\ toks[d.next] = P("}")
               THEN [ok |-> TRUE, type |-> toks[Len(head) + 2].s,
                     data |-> d.pairs]
               ELSE bad

\* re.search( r'__API_START__(.+?)__API_END__' ): the leftmost start sentinel
\* that has an end sentinel at least one token later, and the nearest such
\* end; group 1 is what lies between them
ApiMatch(text) ==
    LET starts == {a \in 1..Len(text) :
                     /\ text[a] = T(MESSAGE_START)
                     /\ \E b \in (a + 2)..Len(text) : text[b] = T(MESSAGE_END)}
    IN IF starts = {} THEN [found |-> FALSE, body |-> << >>]
       ELSE LET a == CHOOSE x \in starts : \A y \in starts : x <= y
                b == CHOOSE x \in (a + 2)..Len(text) :
                        /\ text[x] = T(MESSAGE_END)
                        /\ \A y \in (a + 2)..(x - 1) : text[y] # T(MESSAGE_END)
            IN [found |-> TRUE, body |-> SubSeq(text, a + 1, b - 1)]

\* Python's None where a decoded message is expected
NoResult == [type |-> "none", handler |-> << "", "" >>, data |-> << >>]

\* a handler name f'{ prefix }_{ suffix }' ('setting' has no prefix)
Handler(prefix, suffix) == << prefix, suffix >>
ApiResult(handler, data) == [type |-> "api", handler |-> handler, data |-> data]

\* AsyncOutputController._parse_api_message lines 231-264 (NoResult = None)
_parse_api_message_forward(queue_item) ==
    LET match == ApiMatch(queue_item.text)
        api_msg == Loads(match.body)
    IN IF ~match.found \/ ~api_msg.ok THEN queue_item
       ELSE IF api_msg.type = "progress"
       THEN LET data == Get(api_msg.data, "set",
                            Get(api_msg.data, "percent", NoneVal))
                handler == IF data.k = "str" THEN data.s ELSE "update"
            IN ApiResult(Handler(handler, "progress"), api_msg.data)
       ELSE IF api_msg.type = "status"
       THEN LET set == Get(api_msg.data, "set", NoneVal)
                call_type == IF set \in {Str("clear"), Str("get")} THEN set.s
                             ELSE "set"
            IN ApiResult(Handler(call_type, "status"), api_msg.data)
       ELSE IF api_msg.type = "setting"
       THEN ApiResult(Handler("", "setting"), api_msg.data)
       ELSE NoResult
_parse_api_message(queue_item) ==
    LET match == ApiMatch(queue_item.text)
        api_msg == Loads(match.body)
    IN IF ~match.found \/ ~api_msg.ok THEN NoResult
       ELSE IF api_msg.type = "progress"
       THEN LET data == Get(api_msg.data, "set",
                            Get(api_msg.data, "percent", NoneVal))
                handler == IF data.k = "str" THEN data.s ELSE "update"
            IN ApiResult(Handler(handler, "progress"), api_msg.data)
       ELSE IF api_msg.type = "status"
       THEN LET set == Get(api_msg.data, "set", NoneVal)
                call_type == IF set \in {Str("clear"), Str("get")} THEN set.s
                             ELSE "set"
            IN ApiResult(Handler(call_type, "status"), api_msg.data)
       ELSE IF api_msg.type = "setting"
       THEN ApiResult(Handler("", "setting"), api_msg.data)
       ELSE NoResult

\* AsyncOutputController._normalize_queue_item lines 206-212
_normalize_queue_item(queue_item) ==
    IF T(MESSAGE_START) \in {queue_item.text[k] : k \in 1..Len(queue_item.text)}
    THEN _parse_api_message(queue_item)
    ELSE queue_item

\* the entry points of api/script_api.py: the message each one sends, and
\* whether it then waits in _get_api_response
ApiCall(kind, type, data, waits) ==
    [kind |-> kind, type |-> type, data |-> data, waits |-> waits]
determinate_progress ==
    ApiCall("progress_set", "progress", << << "set", Str("determinate") >> >>, FALSE)
hide_progress ==
    ApiCall("progress_set", "progress", << << "set", Str("hide") >> >>, FALSE)
indeterminate_progress ==
    ApiCall("progress_set", "progress", << << "set", Str("indeterminate") >> >>, FALSE)
show_progress ==
    ApiCall("progress_set", "progress", << << "set", Str("show") >> >>, FALSE)
set_progress(percent) ==
    ApiCall("percent", "progress", << << "percent", Num(percent) >> >>, FALSE)
get_setting(key) ==
    ApiCall("setting", "setting", << << "key", Str(key) >> >>, TRUE)
clear_status ==
    ApiCall("status_clear", "status", << << "set", Str("clear") >> >>, FALSE)
get_status ==
    ApiCall("status_get", "status", << << "set", Str("get") >> >>, TRUE)
set_status(text, append) ==
    ApiCall("status_text", "status",
            << << "set", Str(text) >>, << "append", Bool(append) >> >>, FALSE)

\* a message a script frames by itself (_send called with a 'set' that names
\* no callback of the window)
pulse_progress ==
    ApiCall("progress_set", "progress", << << "set", Str("pulse") >> >>, FALSE)

\* no API call
NoApiCall == ApiCall("none", "none", << >>, FALSE)

\* the values scripts pass
Percents == 0..MaxPercent
Texts == {"working", "clear", "get", MESSAGE_END}
Keys == {"keepass_shortcut", "no_such_setting"}

ApiCalls ==
    {determinate_progress, hide_progress, indeterminate_progress,
     show_progress, clear_status, get_status}
    \cup {set_progress(p) : p \in Percents}
    \cup {get_setting(k) : k \in Keys}
    \cup {set_status(x, a) : x \in Texts, a \in BOOLEAN}

\* ExecHistory.__init__ / set_exit_code / set_terminated
NoRecord == [exists |-> FALSE, exit_code |-> NoExitCode, was_terminated |-> FALSE]
ExecHistory == [exists |-> TRUE, exit_code |-> NoExitCode, was_terminated |-> FALSE]
set_exit_code(h, code) == [h EXCEPT !.exit_code = code]
set_terminated(h) == [h EXCEPT !.was_terminated = TRUE]

\* no terminate() call has found a process yet
NoTerminate == [runner |-> 0, process |-> "none", did |-> << >>,
                failed |-> FALSE, outcome |-> "none", errors |-> 0]

\* run_script_async has not been called
NoAsyncRun == [outcome |-> "none", thread |-> "none", on_finished |-> 0]

NoCall == [name |-> "none", result |-> "none", runner |-> 0,
           process |-> "none",
           prev_name |-> "none", prev_result |-> "none", prev_runner |-> 0]

Init ==
    /\ lock = "free"
    /\ current_runner = 0
    /\ paused = FALSE
    /\ runner = [t \in Threads |-> 0]
    /\ proc = [t \in Threads |-> "none"]
    /\ oscode = [t \in Threads |-> NoExitCode]
    /\ r_terminated = [t \in Threads |-> FALSE]
    /\ rec = [t \in Threads |-> NoRecord]
    /\ termCalled = [t \in Threads |-> {}]
    /\ queue = << >>
    /\ pc = [t \in Threads |-> "idle"]
    /\ exc = [t \in Threads |-> "none"]
    /\ raised = [t \in Threads |-> "none"]
    /\ bodyExc = [t \in Threads |-> "none"]
    /\ step = 0
    /\ exit_code = NoExitCode
    /\ terminated = FALSE
    /\ effective_stop = FALSE
    /\ run_success = 0
    /\ seq_stop \in BOOLEAN
    /\ abortAt = 0
    /\ abortWhy = "none"
    /\ onFinished = 0
    /\ syncRuns = 0
    /\ uiPc = "idle"
    /\ uiOps = 0
    /\ btnStop = FALSE
    /\ btnPause = FALSE
    /\ lastCall = NoCall
    /\ in_breakpoint = [t \in Threads |-> FALSE]
    /\ errpipe = [t \in Threads |-> << >>]
    /\ childWait = [t \in Threads |-> "no"]
    /\ stdin = [t \in Threads |-> << >>]
    /\ nlines = 0
    /\ qhead = 0
    /\ uiq = << >>
    /\ transcript = << >>
    /\ rec_out = [r \in Records |-> << >>]
    /\ rec_end = [r \in Records |-> 0]
    /\ btnContinue = FALSE
    /\ calls = << >>
    /\ respq = << >>
    /\ contLog = << >>
    /\ c_phase = "idle"
    /\ c_call = NoApiCall
    /\ c_wire = << >>
    /\ c_result = NoResult
    /\ lastTerm = NoTerminate
    /\ uiTouch = {}
    /\ nclear = 0
    /\ asyncRun = NoAsyncRun
    /\ kids = [t \in Threads |-> 0]
    /\ pdb_echoed = [t \in Threads |-> FALSE]
    /\ direct = FALSE

\* the thread whose scope holds runner number r
Owner(r) == CHOOSE t \in Threads : runner[t] = r

\* the number naming the runner a thread constructs
NewRunner(t) == IF t = "seq" THEN step ELSE NumSteps + syncRuns

\* ------------------------------------------------ ScriptExecutionManager
\* is_paused / is_running
is_paused == paused
is_running == current_runner # 0 /\ ~paused

\* (mutant) the test of line 54 left out
SlotTakenNever(cr) == FALSE

\* create_runner, line 54: the test made under the lock
SlotTaken(cr) == cr # 0

\* ScriptRunner.__init__ line 53, and the pipes of a child not yet started
NewReader(t) ==
    /\ in_breakpoint' = [in_breakpoint EXCEPT ![t] = FALSE]
    /\ errpipe' = [errpipe EXCEPT ![t] = << >>]
    /\ childWait' = [childWait EXCEPT ![t] = "no"]
    /\ stdin' = [stdin EXCEPT ![t] = << >>]
    /\ kids' = [kids EXCEPT ![t] = 0]
    /\ pdb_echoed' = [pdb_echoed EXCEPT ![t] = FALSE]

\* create_runner, line 53: with self._lock
CrAcquire(t) ==
    /\ pc[t] = "create"
    /\ lock = "free"
    /\ lock' = t
    /\ pc' = [pc EXCEPT ![t] = "create_locked"]
    /\ UNCHANGED << current_runner, paused, exc, raised, bodyExc,
                    runnerVars, seqVars, uiVars, queue, syncRuns >>
    /\ UNCHANGED ioVars

\* create_runner, lines 54-58: raise, or construct the runner
\* (ScriptRunner.__init__ lines 45-54) and take the slot; leaving the with
\* block releases the lock either way
CrCheck(t) ==
    /\ pc[t] = "create_locked"
    /\ lock' = "free"
    /\ IF SlotTaken(current_runner)
       THEN /\ exc' = [exc EXCEPT ![t] = "RuntimeError"]
            /\ pc' = [pc EXCEPT ![t] = "propagate"]
            /\ bodyExc' = [bodyExc EXCEPT ![t] = "none"]
            /\ UNCHANGED << current_runner, runnerVars, in_breakpoint,
                            errpipe, childWait, stdin, kids, pdb_echoed, direct >>
       ELSE /\ runner' = [runner EXCEPT ![t] = NewRunner(t)]
            /\ proc' = [proc EXCEPT ![t] = "none"]
            /\ oscode' = [oscode EXCEPT ![t] = NoExitCode]
            /\ r_terminated' = [r_terminated EXCEPT ![t] = FALSE]
            /\ rec' = [rec EXCEPT ![t] = NoRecord]
            /\ termCalled' = [termCalled EXCEPT ![t] = {}]
            /\ current_runner' = NewRunner(t)
            /\ bodyExc' = [bodyExc EXCEPT ![t] = "none"]
            /\ pc' = [pc EXCEPT ![t] = "spawn"]
            /\ NewReader(t)
            /\ UNCHANGED exc
    /\ UNCHANGED << paused, raised, seqVars, uiVars, queue, syncRuns >>
    /\ UNCHANGED << nlines, dispVars, codecVars, histVars, direct >>

\* (mutant) the except clause tags its event with no record
ExceptItemUntagged(r) == Item("Exception", SYSERROR, TRUE, 0, 0, NoExitCode)

\* create_runner, lines 63-70: the except clause of the scope
ExceptItem(r) == Item("Exception", SYSERROR, TRUE, r, 0, NoExitCode)

ScopeExcept(t) ==
    /\ pc[t] = "except"
    /\ IF rec[t].exists
       THEN /\ queue' = Put(queue, ExceptItem(runner[t]))
            /\ UNCHANGED exc
       ELSE \* runner._exec_item is not set: the handler itself raises
            /\ exc' = [exc EXCEPT ![t] = "AttributeError"]
            /\ UNCHANGED queue
    /\ pc' = [pc EXCEPT ![t] = "finally"]
    /\ UNCHANGED << coordVars, runnerVars, raised, bodyExc, seqVars, uiVars,
                    syncRuns >>
    /\ UNCHANGED ioVars

\* create_runner, line 73: the finally clause takes the lock
FinAcquire(t) ==
    /\ pc[t] = "finally"
    /\ lock = "free"
    /\ lock' = t
    /\ pc' = [pc EXCEPT ![t] = "finally_locked"]
    /\ UNCHANGED << current_runner, paused, exc, raised, bodyExc,
                    runnerVars, seqVars, uiVars, queue, syncRuns >>
    /\ UNCHANGED ioVars

\* (mutant) the finally clause leaves the slot as it is
ReleasedSlotKept(cr, r) == cr

\* create_runner, lines 74-75
ReleasedSlot(cr, r) == IF cr = r THEN 0 ELSE cr

FinRelease(t) ==
    /\ pc[t] = "finally_locked"
    /\ current_runner' = ReleasedSlot(current_runner, runner[t])
    /\ lock' = "free"
    /\ pc' = [pc EXCEPT ![t] = IF exc[t] # "none" THEN "propagate"
                                ELSE "after_scope"]
    /\ proc' = [proc EXCEPT ![t] = "none"]
    /\ oscode' = [oscode EXCEPT ![t] = NoExitCode]
    /\ r_terminated' = [r_terminated EXCEPT ![t] = FALSE]
    /\ rec' = [rec EXCEPT ![t] = NoRecord]
    /\ termCalled' = [termCalled EXCEPT ![t] = {}]
    /\ NewReader(t)
    /\ UNCHANGED << paused, runner, exc, raised, bodyExc, seqVars, uiVars,
                    queue, syncRuns >>
    /\ UNCHANGED << nlines, dispVars, codecVars, histVars, direct >>

\* ----------------------------------------------------------- ScriptRunner
StartingItem(r) == Item("Starting", SYSINFO, FALSE, r, 0, NoExitCode)
ErrorItem(r) == Item("Unexpected error", SYSERROR, TRUE, r, 0, NoExitCode)

\* run_script lines 260-270 with _create_process: the record is made and
\* announced, then Popen starts the child and the buttons are enabled
SpawnOk(t) ==
    /\ pc[t] = "spawn"
    /\ rec' = [rec EXCEPT ![t] = ExecHistory]
    /\ queue' = Put(queue, StartingItem(runner[t]))
    /\ proc' = [proc EXCEPT ![t] = "running"]
    /\ btnStop' = TRUE
    /\ btnPause' = TRUE
    /\ pc' = [pc EXCEPT ![t] = "reading"]
    /\ UNCHANGED << coordVars, runner, oscode, r_terminated, termCalled, exc,
                    raised, bodyExc, seqVars, uiPc, uiOps, lastCall,
                    syncRuns >>
    /\ UNCHANGED ioVars

\* ... or Popen raises: run_script lines 276-286 and _collect_error_info
\* lines 64-69 (current_process stays None)
SpawnFail(t) ==
    /\ pc[t] = "spawn"
    /\ rec' = [rec EXCEPT ![t] = ExecHistory]
    /\ queue' = PutAll(queue, << StartingItem(runner[t]),
                                  ErrorItem(runner[t]) >>)
    /\ pc' = [pc EXCEPT ![t] = "collect"]
    /\ UNCHANGED << coordVars, runner, proc, oscode, r_terminated, termCalled,
                    exc, raised, bodyExc, seqVars, uiVars, syncRuns >>
    /\ UNCHANGED ioVars

\* _collect_error_info lines 70-92: the screenshot is taken outside any try,
\* so it either returns or raises into the scope
CollectDone(t) ==
    /\ pc[t] = "collect"
    /\ \/ /\ pc' = [pc EXCEPT ![t] = "after_run"]
          /\ UNCHANGED << exc, bodyExc >>
       \/ /\ exc' = [exc EXCEPT ![t] = "ScreenshotError"]
          /\ bodyExc' = [bodyExc EXCEPT ![t] = "ScreenshotError"]
          /\ pc' = [pc EXCEPT ![t] = "except"]
    /\ UNCHANGED << coordVars, runnerVars, raised, seqVars, uiVars, queue,
                    syncRuns >>
    /\ UNCHANGED ioVars

\* the child exits by itself
ChildExit(t) ==
    /\ proc[t] = "running"
    /\ childWait[t] = "no"
    /\ \E code \in ExitCodes : oscode' = [oscode EXCEPT ![t] = code]
    /\ proc' = [proc EXCEPT ![t] = "exited"]
    /\ UNCHANGED << coordVars, runner, r_terminated, rec, termCalled,
                    threadVars, seqVars, uiVars, queue, syncRuns >>
    /\ UNCHANGED ioVars

\* (mutant) the waiter looks at the exit code before the terminated flag
TerminalItemByCode(r, term, code) ==
    IF code = 0
    THEN Item("Script completed successfully", SUCCESS, TRUE, r, 0, NoExitCode)
    ELSE IF term THEN Item("Script terminated", SYSINFO, TRUE, r, 0, NoExitCode)
         ELSE Item("Script failed", SYSERROR, TRUE, r, 0, code)

\* _read_monitor_completion lines 150-173: the terminal event
TerminalItem(r, term, code) ==
    IF term THEN Item("Script terminated", SYSINFO, TRUE, r, 0, NoExitCode)
    ELSE IF code = 0
         THEN Item("Script completed successfully", SUCCESS, TRUE, r, 0, NoExitCode)
         ELSE Item("Script failed", SYSERROR, TRUE, r, 0, code)

\* a widget of the window is used by the thread th
Touch(th, op) == [thread |-> th, op |-> op]

\* (mutant) the waiter marks the record terminated only for a failing code
CompletedRecordByCode(h, term, code) ==
    IF term /\ code # 0 THEN set_terminated(set_exit_code(h, code))
    ELSE set_exit_code(h, code)

\* _read_monitor_completion lines 148-151: what the record becomes
CompletedRecord(h, term, code) ==
    IF term THEN set_terminated(set_exit_code(h, code))
    ELSE set_exit_code(h, code)

\* (mutant) a waiter that leaves the flag as the buttons set it
PausedAfterCompletionKept(before) == before

\* _read_monitor_completion line 178
PausedAfterCompletion(before) == FALSE

\* run_script lines 272-274 run the readers and the waiter in the calling
\* thread (target = f()): both streams are read to end-of-file (the child
\* has exited and nothing is left in the stderr pipe), wait() returns, then
\* _read_monitor_completion lines 147-178
Monitor(t) ==
    /\ pc[t] = "reading"
    /\ proc[t] = "exited"
    /\ errpipe[t] = << >>
    /\ rec' = [rec EXCEPT ![t] = CompletedRecord(@, r_terminated[t], oscode[t])]
    /\ queue' = Put(queue, TerminalItem(runner[t], r_terminated[t], oscode[t]))
    /\ uiTouch' = uiTouch \cup {Touch(t, "progress"), Touch(t, "status")}
    /\ paused' = PausedAfterCompletion(paused)
    /\ pc' = [pc EXCEPT ![t] = "after_run"]
    /\ UNCHANGED << lock, current_runner, runner, proc, oscode,
                    r_terminated, termCalled, exc, raised, bodyExc, seqVars,
                    uiVars, syncRuns >>
    /\ UNCHANGED << readerVars, dispVars, codecVars, lastTerm, nclear,
                    asyncRun, kids, pdb_echoed, direct >>

\* ------------------------------------------------- the child's output
NL == P("\n")

\* what a script prints: an ordinary line (here the number of its run and
\* the number of the line), the line pdb prints when it halts at a
\* module-level breakpoint in row n, a framed API message, and a framed
\* message that lost its closing brace
PlainLine(r, n) == << T("output"), N(r), N(n), NL >>
BreakpointLine(n) == << T("> script.py"), P("("), N(n), P(")"),
                        T("<module>()"), NL >>
ApiLine(call) == _send(call.type, call.data) \o << NL >>
GarbledLine(call) ==
    LET line == _send(call.type, call.data)
    IN SubSeq(line, 1, Len(line) - 2) \o << T(MESSAGE_END), NL >>

\* str.rstrip(): trailing white space removed
RECURSIVE rstrip(_)
rstrip(text) ==
    IF text # << >> /\ text[Len(text)] \in {NL, T(" ")}
    THEN rstrip(SubSeq(text, 1, Len(text) - 1))
    ELSE text

\* ScriptRunner._is_breakpoint_line line 139: the ends of the matches of
\* r'^.*\((.*)\)<module>\(\)' and of 'At .*:{l}' in the line
BreakpointEnds(text) ==
    {j \in 1..Len(text) :
        \/ /\ text[j] = T("<module>()")
           /\ j > 2 /\ text[j - 1] = P(")")
           /\ \E i \in 1..(j - 2) : text[i] = P("(")
        \/ /\ text[j] = T(":{l}")
           /\ \E i \in 1..(j - 1) : text[i] = T("At ")}

_is_breakpoint_line(text) == BreakpointEnds(text) # {}

\* the Match object formatted into the message: its repr shows the matched
\* text, which runs from the start of the line to the last match end
MatchRepr(text) ==
    LET j == CHOOSE x \in BreakpointEnds(text) :
                \A y \in BreakpointEnds(text) : y <= x
    IN << T("<re.Match object") >> \o SubSeq(text, 1, j)

\* _read_stdout lines 219-235: the event put for one line read
StdoutItem(r, text) ==
    IF _is_breakpoint_line(text)
    THEN [Item("A breakpoint occured", SYSINFO, FALSE, r, 0, NoExitCode)
             EXCEPT !.breakpoint = TRUE, !.text = MatchRepr(text)]
    ELSE [Item("stdout", INFO, FALSE, r, 0, NoExitCode)
             EXCEPT !.text = rstrip(text)]

\* _read_stderr lines 196-201
StderrItemFirstRecord(r, text) ==
    [Item("stderr", ERROR, FALSE, 1, 0, NoExitCode) EXCEPT !.text = rstrip(text)]
StderrItem(r, text) ==
    [Item("stderr", ERROR, FALSE, r, 0, NoExitCode) EXCEPT !.text = rstrip(text)]

\* The child writes a line to stdout and _read_stdout, which run_script
\* line 272 runs in the runner's thread while the child lives, reads it
\* (lines 211-235).  wait is what the child blocks on afterwards.
ReadStdout(t, text, wait) ==
    /\ pc[t] = "reading"
    /\ proc[t] = "running"
    /\ childWait[t] = "no"
    /\ nlines < MaxLines
    /\ nlines' = nlines + 1
    /\ queue' = Put(queue, StdoutItem(runner[t], text))
    /\ in_breakpoint' = [in_breakpoint EXCEPT
                            ![t] = @ \/ _is_breakpoint_line(text)]
    /\ childWait' = [childWait EXCEPT ![t] = wait]
    /\ UNCHANGED << coordVars, runnerVars, threadVars, seqVars, uiVars,
                    syncRuns, errpipe, stdin, dispVars, codecVars, histVars, kids, pdb_echoed, direct >>

\* the script prints an ordinary line
ScriptPrint(t) == ReadStdout(t, PlainLine(runner[t], nlines + 1), "no")

\* pdb halts the script at a breakpoint and waits for a command
ScriptBreak(t) == ReadStdout(t, BreakpointLine(nlines + 1), "debugger")

\* the line pdb writes after the line that names the place it halted at:
\* the source text of row n.  Its prompt follows without a line end.
PdbSourceLine(n) == << T("-> "), T("source"), N(n), NL >>

\* pdb shows the source line and _read_stdout reads it (lines 211-235);
\* _in_breakpoint is set (line 223) and the reader goes on as before
PdbEcho(t) ==
    /\ pc[t] = "reading"
    /\ proc[t] = "running"
    /\ childWait[t] = "debugger"
    /\ ~pdb_echoed[t]
    /\ pdb_echoed' = [pdb_echoed EXCEPT ![t] = TRUE]
    /\ queue' = Put(queue, StdoutItem(runner[t], PdbSourceLine(nlines)))
    /\ in_breakpoint' = [in_breakpoint EXCEPT
                            ![t] = @ \/ _is_breakpoint_line(
                                            PdbSourceLine(nlines))]
    /\ UNCHANGED << coordVars, runnerVars, threadVars, seqVars, uiVars,
                    syncRuns, errpipe, childWait, stdin, nlines, dispVars,
                    codecVars, histVars, kids, direct >>

\* the calls the scripts of the model make while they run
RunCalls == {get_status, set_progress(MaxPercent)}
            \cup {get_setting(k) : k \in Keys}

\* the script calls an entry point of script_api: _send, then
\* _get_api_response for the get-style ones
ScriptApi(t) ==
    \E call \in RunCalls :
        ReadStdout(t, ApiLine(call), IF call.waits THEN "response" ELSE "no")

\* the script sends a message for which the window has no callback
ScriptApiUnknown(t) == ReadStdout(t, ApiLine(pulse_progress), "no")

\* a framed message reaches the pipe damaged
ScriptGarbled(t) == ReadStdout(t, GarbledLine(hide_progress), "no")

\* the script writes a line to stderr; nothing reads the pipe before
\* _read_stdout has returned (run_script line 273)
ScriptPrintErr(t) ==
    /\ pc[t] = "reading"
    /\ proc[t] = "running"
    /\ childWait[t] = "no"
    /\ nlines < MaxLines
    /\ Len(errpipe[t]) < PipeLines
    /\ nlines' = nlines + 1
    /\ errpipe' = [errpipe EXCEPT ![t] = Append(@, PlainLine(runner[t], nlines + 1))]
    /\ UNCHANGED << coordVars, runnerVars, threadVars, seqVars, uiVars,
                    syncRuns, queue, in_breakpoint, childWait, stdin,
                    dispVars, codecVars, histVars, kids, pdb_echoed, direct >>

\* the script writes to stderr when the pipe holds all it can: the write
\* blocks until the pipe is read.  Popen line 119 gives the child a pipe for
\* stderr, and _read_stderr is not entered before _read_stdout has seen
\* end-of-file (run_script lines 272-273), which a blocked child does not
\* send: nothing reads the pipe while the child lives.
ScriptStderrFull(t) ==
    /\ pc[t] = "reading"
    /\ proc[t] = "running"
    /\ childWait[t] = "no"
    /\ Len(errpipe[t]) = PipeLines
    /\ childWait' = [childWait EXCEPT ![t] = "stderr"]
    /\ UNCHANGED << coordVars, runnerVars, threadVars, seqVars, uiVars,
                    syncRuns, queue, in_breakpoint, errpipe, stdin, nlines,
                    dispVars, codecVars, histVars, kids, pdb_echoed, direct >>

\* _read_stderr lines 186-201, run once stdout is at end-of-file
ReadStderr(t) ==
    /\ pc[t] = "reading"
    /\ proc[t] = "exited"
    /\ errpipe[t] # << >>
    /\ queue' = Put(queue, StderrItem(runner[t], Head(errpipe[t])))
    /\ errpipe' = [errpipe EXCEPT ![t] = Tail(@)]
    /\ UNCHANGED << coordVars, runnerVars, threadVars, seqVars, uiVars,
                    syncRuns, in_breakpoint, childWait, stdin, nlines,
                    dispVars, codecVars, histVars, kids, pdb_echoed, direct >>

\* ------------------------------------------------- run_script_sync thread
\* a background thread calls run_script_sync (line 269: create_runner)
StartSync ==
    /\ pc["sync"] = "idle"
    /\ syncRuns < MaxSyncRuns
    /\ syncRuns' = syncRuns + 1
    /\ pc' = [pc EXCEPT !["sync"] = "create"]
    /\ raised' = [raised EXCEPT !["sync"] = "none"]
    /\ UNCHANGED << coordVars, runnerVars, exc, bodyExc, seqVars, uiVars,
                    queue >>
    /\ UNCHANGED ioVars

\* run_script_sync line 280: runner.current_runner.wait() -- a ScriptRunner
\* has no attribute current_runner, so the statement raises AttributeError
SyncWait ==
    /\ pc["sync"] = "after_run"
    /\ exc' = [exc EXCEPT !["sync"] = "AttributeError"]
    /\ bodyExc' = [bodyExc EXCEPT !["sync"] = "AttributeError"]
    /\ pc' = [pc EXCEPT !["sync"] = "except"]
    /\ UNCHANGED << coordVars, runnerVars, raised, seqVars, uiVars, queue,
                    syncRuns >>
    /\ UNCHANGED ioVars

\* the exception leaves run_script_sync to its caller
SyncPropagate ==
    /\ pc["sync"] = "propagate"
    /\ raised' = [raised EXCEPT !["sync"] = exc["sync"]]
    /\ exc' = [exc EXCEPT !["sync"] = "none"]
    /\ pc' = [pc EXCEPT !["sync"] = "idle"]
    /\ UNCHANGED << coordVars, runnerVars, bodyExc, seqVars, uiVars, queue,
                    syncRuns >>
    /\ UNCHANGED ioVars

\* --------------------------------------------------- ScriptMenuItem.run_script
\* ScriptMenuItem.run_script, first statement (script_menu_item.py line
\* 184): self.master_self.tabControl.select( 0 ).  The main window names its
\* notebook tab_control (main_window.py line 121) and defines no tabControl:
\* the statement raises AttributeError in the Tk callback.  The statements
\* after it (the CLEAROUTPUT put, the collecting of the input, the start of
\* the thread of script_process_wrapper, whose create_runner is looked up
\* on app_state.script_manager, an attribute ApplicationState lacks) are not
\* reached: the call leaves the queue, the slot and the processes alone.
\* `direct` records that the menu item was chosen.
StartDirect ==
    /\ ~direct
    /\ direct' = TRUE
    /\ UNCHANGED << coordVars, runnerVars, threadVars, seqVars, uiVars,
                    queue, syncRuns >>
    /\ UNCHANGED << readerVars, dispVars, codecVars, histVars, kids,
                    pdb_echoed >>

\* run_script_async lines 208-218: threading.Thread( sync_caller, daemon =
\* True ) passes the worker as the first positional parameter of Thread,
\* which is `group`, not `target`.  Thread.__init__ asserts that group is
\* None: the call raises AssertionError to the caller of run_script_async;
\* in a build that strips assertions (python -O) the thread is created with
\* no target, start() runs an empty run() and the thread ends at once.
\* sync_caller, and with it run_script_sync and on_finished, runs in neither.
RunScriptAsync ==
    /\ asyncRun = NoAsyncRun
    /\ \/ asyncRun' = [outcome |-> "AssertionError", thread |-> "none",
                       on_finished |-> 0]
       \/ asyncRun' = [outcome |-> "returned", thread |-> "empty",
                       on_finished |-> 0]
    /\ UNCHANGED << coordVars, runnerVars, threadVars, seqVars, uiVars, queue,
                    syncRuns, readerVars, dispVars, codecVars, lastTerm,
                    uiTouch, nclear, kids, pdb_echoed, direct >>

\* ------------------------------------------------------- SequenceManager
\* op_run_sequence -> execution_pre_work line 344, run_sequence lines 768-776
RunSequence ==
    /\ pc["seq"] = "idle"
    /\ uiPc = "idle"
    /\ queue' = PutAll(queue, << Control(CLEAROUTPUT), Control(CLEAROUTPUT),
                                  Item("Starting sequence", SYSINFO, FALSE, 0,
                                       NumSteps, NoExitCode) >>)
    /\ step' = 1
    /\ pc' = [pc EXCEPT !["seq"] = "create"]
    /\ UNCHANGED << coordVars, runnerVars, exc, raised, bodyExc, exit_code,
                    terminated, effective_stop, run_success, seq_stop,
                    abortAt, abortWhy, onFinished, uiVars, syncRuns >>
    /\ UNCHANGED ioVars

\* _sequence_runner line 807
EffectiveStop(step_stop, sequence_stop) == step_stop \/ sequence_stop

\* _sequence_runner lines 809-836: what the branches put on the queue
StepItems(i, r, term, code, stop) ==
    IF term
    THEN << Item("Aborted by user at step", SYSINFO, FALSE, r, i, NoExitCode) >>
    ELSE IF code # 0
         THEN IF stop
              THEN << Item("Stopped on error at step", SYSERROR, FALSE, r, i,
                           code) >>
              ELSE << Item("Step failed", SYSWARNING, FALSE, r, i, code) >>
         ELSE << >>

\* _sequence_runner lines 809-836: what the branches assign to run_success
BranchValue(prev, term, code, stop) ==
    IF term THEN 1
    ELSE IF code # 0 THEN (IF stop THEN 2 ELSE 3)
    ELSE prev

\* (mutant) line 838 left out: the branches' value stands
RunSuccessKept(prev, term, code, stop) == BranchValue(prev, term, code, stop)

\* _sequence_runner line 838 ends the with block: run_success = 0, whatever
\* the branches assigned
RunSuccess(prev, term, code, stop) ==
    LET assigned == BranchValue(prev, term, code, stop)
    IN  0

\* _sequence_runner lines 803-838, after run_script has returned; the step's
\* own stop_on_error is read here (line 807)
SeqReadBack ==
    /\ pc["seq"] = "after_run"
    /\ IF proc["seq"] = "none"
       THEN \* line 803: current_process is None, .wait() raises
            /\ exc' = [exc EXCEPT !["seq"] = "AttributeError"]
            /\ bodyExc' = [bodyExc EXCEPT !["seq"] = "AttributeError"]
            /\ pc' = [pc EXCEPT !["seq"] = "except"]
            /\ UNCHANGED << queue, exit_code, terminated, effective_stop,
                            run_success, abortAt, abortWhy >>
       ELSE \E step_stop \in BOOLEAN :
            LET code == rec["seq"].exit_code
                term == r_terminated["seq"]
                stop == EffectiveStop(step_stop, seq_stop)
            IN /\ exit_code' = code
               /\ terminated' = term
               /\ effective_stop' = stop
               /\ queue' = PutAll(queue, StepItems(step, runner["seq"], term,
                                                   code, stop))
               /\ run_success' = RunSuccess(run_success, term, code, stop)
               /\ IF abortAt = 0 /\ (term \/ (code # 0 /\ stop))
                  THEN /\ abortAt' = step
                       /\ abortWhy' = IF term THEN "user" ELSE "error"
                  ELSE UNCHANGED << abortAt, abortWhy >>
               /\ pc' = [pc EXCEPT !["seq"] = "finally"]
               /\ UNCHANGED << exc, bodyExc >>
    /\ UNCHANGED << coordVars, runnerVars, raised, step, seq_stop, onFinished,
                    uiVars, syncRuns >>
    /\ UNCHANGED ioVars

SummaryItem == Item("Sequence stopped due to individual step error",
                    SYSWARNING, FALSE, 0, 0, NoExitCode)

\* _sequence_runner lines 840-847 and the for statement of line 788
SeqLoop ==
    /\ pc["seq"] = "after_scope"
    /\ IF run_success > 0
       THEN /\ queue' = Put(queue, SummaryItem)
            /\ pc' = [pc EXCEPT !["seq"] = "finish"]
            /\ UNCHANGED step
       ELSE /\ IF step < NumSteps
               THEN /\ step' = step + 1
                    /\ pc' = [pc EXCEPT !["seq"] = "create"]
               ELSE /\ pc' = [pc EXCEPT !["seq"] = "finish"]
                    /\ UNCHANGED step
            /\ UNCHANGED queue
    /\ UNCHANGED << coordVars, runnerVars, exc, raised, bodyExc, exit_code,
                    terminated, effective_stop, run_success, seq_stop,
                    abortAt, abortWhy, onFinished, uiVars, syncRuns >>
    /\ UNCHANGED ioVars

\* _mini_runner lines 756-758 -> on_finished -> execution_post_work lines
\* 325-326; reached when _sequence_runner returns or raises
SeqFinished ==
    /\ pc["seq"] \in {"finish", "propagate"}
    /\ onFinished' = onFinished + 1
    /\ btnStop' = FALSE
    /\ btnPause' = FALSE
    /\ raised' = [raised EXCEPT !["seq"] = exc["seq"]]
    /\ exc' = [exc EXCEPT !["seq"] = "none"]
    /\ pc' = [pc EXCEPT !["seq"] = "done"]
    /\ UNCHANGED << coordVars, runnerVars, bodyExc, step, exit_code,
                    terminated, effective_stop, run_success, seq_stop,
                    abortAt, abortWhy, uiPc, uiOps, lastCall, queue,
                    syncRuns >>
    /\ UNCHANGED ioVars

\* ------------------------------------------------- the Tk thread's buttons
\* _stop_script -> stop_current_script lines 291-293 -> terminate lines
\* 320-326: flag and marker first; the lock is held until terminate returns
StopBegin ==
    /\ uiPc = "idle"
    /\ btnStop
    /\ uiOps < MaxUiOps
    /\ lock = "free"
    /\ uiOps' = uiOps + 1
    /\ IF current_runner # 0
       THEN LET o == Owner(current_runner)
            IN /\ termCalled' = [termCalled EXCEPT ![o] = @ \cup {proc[o]}]
               /\ IF proc[o] # "none"
                  THEN /\ r_terminated' = [r_terminated EXCEPT ![o] = TRUE]
                       /\ queue' = Put(queue, Control(PROCESSTERMINATED))
                       /\ lastTerm' = [NoTerminate EXCEPT
                                           !.runner = current_runner,
                                           !.process = proc[o],
                                           !.did = << "flag", "control" >>,
                                           !.outcome = "pending"]
                       /\ lock' = "ui"
                       /\ uiPc' = "kill"
                  ELSE UNCHANGED << r_terminated, queue, lastTerm, lock,
                                    uiPc >>
       ELSE UNCHANGED << termCalled, r_terminated, queue, lastTerm, lock,
                         uiPc >>
    /\ UNCHANGED << current_runner, paused, runner, proc, oscode,
                    rec, threadVars, seqVars, btnStop, btnPause, lastCall,
                    syncRuns >>
    /\ UNCHANGED << readerVars, dispVars, codecVars, uiTouch, nclear,
                    asyncRun, kids, pdb_echoed, direct >>

\* (mutant) a reaper that kills the root before its descendants
ReaperOrderRootFirst(n) == << "kill_root" >> \o [i \in 1..n |-> "kill_child"]

\* _process_reaper lines 312-317 on a live tree of n descendants: each
\* enumerated descendant is killed, then the root
ReaperOrder(n) == [i \in 1..n |-> "kill_child"] \o << "kill_root" >>

\* the event of lines 341-346
TerminationError(r) ==
    Item("Termination - Exception", SYSERROR, FALSE, r, 0, NoExitCode)

\* (mutant) acquire() and release() around the call instead of a with block
LockAfterTerminateUnscoped(outcome) ==
    IF outcome = "raise" THEN "ui" ELSE "free"

\* stop_current_script line 291: `with self._lock` gives the lock back when
\* terminate() returns and when it raises
LockAfterTerminate(outcome) == "free"

\* terminate lines 327-346 with _process_reaper: the kill, as one of
\*   - the tree is live and every kill succeeds;
\*   - a descendant exits between its enumeration (line 312) and its kill
\*     (line 315): psutil raises NoSuchProcess, the handler of line 337 calls
\*     _process_reaper again, which now succeeds, and the error event of
\*     lines 341-346 is put;
\*   - the child has exited already: psutil.Process (line 312) either still
\*     resolves the pid, so that nothing is killed, or raises NoSuchProcess,
\*     and then the handler's own _process_reaper call (line 339) raises it
\*     again and that second raise leaves terminate() before line 341.
StopKill ==
    /\ uiPc = "kill"
    /\ LET o == Owner(current_runner)
       IN IF proc[o] \in {"running", "suspended"}
          THEN /\ proc' = [proc EXCEPT ![o] = "exited"]
               /\ oscode' = [oscode EXCEPT ![o] = KillCode]
               /\ kids' = [kids EXCEPT ![o] = 0]
               /\ \/ /\ lastTerm' = [lastTerm EXCEPT
                                          !.did = @ \o ReaperOrder(kids[o]),
                                          !.outcome = "returned"]
                        /\ UNCHANGED queue
                     \/ /\ kids[o] > 0
                        /\ lastTerm' = [lastTerm EXCEPT
                                          !.did = @ \o << "kill_child_raised" >>
                                                    \o ReaperOrder(kids[o] - 1),
                                          !.failed = TRUE,
                                          !.outcome = "returned",
                                          !.errors = @ + 1]
                        /\ queue' = Put(queue,
                                        TerminationError(current_runner))
          ELSE /\ UNCHANGED << proc, oscode, kids, queue >>
               /\ \/ lastTerm' = [lastTerm EXCEPT !.outcome = "returned"]
                  \/ lastTerm' = [lastTerm EXCEPT !.failed = TRUE,
                                                  !.outcome = "raise"]
    /\ lock' = LockAfterTerminate(lastTerm'.outcome)
    /\ uiPc' = "idle"
    /\ UNCHANGED << current_runner, paused, runner, r_terminated,
                    rec, termCalled, threadVars, seqVars, uiOps, btnStop,
                    btnPause, lastCall, syncRuns >>
    /\ UNCHANGED << readerVars, dispVars, codecVars, uiTouch, nclear,
                    asyncRun, pdb_echoed, direct >>

\* the script starts a process of its own
ScriptForks(t) ==
    /\ proc[t] = "running"
    /\ childWait[t] = "no"
    /\ kids[t] < MaxKids
    /\ kids' = [kids EXCEPT ![t] = @ + 1]
    /\ UNCHANGED << coordVars, runnerVars, threadVars, seqVars, uiVars, queue,
                    syncRuns, readerVars, dispVars, codecVars, histVars,
                    pdb_echoed, direct >>

\* the state of current_runner.current_process as the buttons see it
\* ("no runner" when current_runner is None)
CurrentProcess == IF current_runner = 0 THEN "no runner"
                  ELSE proc[Owner(current_runner)]

\* pause_current_script lines 100-125 / resume_current_script lines 133-158:
\* "raise" when current_runner or current_process is None (AttributeError),
\* "false" when the process is gone (NoSuchProcess), else "true"
CallResult(p) ==
    IF p = "no runner" THEN "raise"
    ELSE IF p = "none" THEN "raise"
    ELSE IF p = "exited" THEN "false"
    ELSE "true"

\* pause_current_script line 119
PausedAfterPause(before) == TRUE

\* resume_current_script line 152
PausedAfterResume(before) == TRUE

CallRecord(name, result) ==
    [name |-> name, result |-> result, runner |-> current_runner,
     process |-> CurrentProcess,
     prev_name |-> lastCall.name, prev_result |-> lastCall.result,
     prev_runner |-> lastCall.runner]

\* pause_current_script lines 105-116 / resume_current_script lines 138-149
\* when a descendant exits between its enumeration (lines 111, 144) and the
\* calls made on it (lines 115-117, 148-150): the root has been suspended
\* (resumed) by line 105 (138), psutil raises NoSuchProcess in the loop, and
\* the handler of lines 123-125 (156-158) returns False; the assignment of
\* line 119 (152) is not reached
WalkFails(name, to) ==
    LET o == Owner(current_runner)
    IN /\ current_runner # 0
       /\ proc[o] \in {"running", "suspended"}
       /\ kids[o] > 0
       /\ lastCall' = CallRecord(name, "false")
       /\ proc' = [proc EXCEPT ![o] = to]
       /\ kids' = [kids EXCEPT ![o] = @ - 1]
       /\ UNCHANGED << paused, queue >>

\* _pause_resume_script lines 287-294: not paused, so pause
PauseClick ==
    /\ uiPc = "idle"
    /\ btnPause
    /\ uiOps < MaxUiOps
    /\ ~is_paused
    /\ uiOps' = uiOps + 1
    /\ \/ LET result == CallResult(CurrentProcess)
          IN /\ lastCall' = CallRecord("pause", result)
             /\ IF result = "true"
                THEN /\ proc' = [proc EXCEPT
                                    ![Owner(current_runner)] = "suspended"]
                     /\ paused' = PausedAfterPause(paused)
                     /\ queue' = Put(queue, Item("Process was paused", SYSINFO,
                                                 FALSE, -1, 0, NoExitCode))
                ELSE UNCHANGED << proc, paused, queue >>
             /\ UNCHANGED kids
       \/ WalkFails("pause", "suspended")
    /\ UNCHANGED << lock, current_runner, runner, oscode,
                    r_terminated, rec, termCalled, threadVars, seqVars, uiPc,
                    btnStop, btnPause, syncRuns >>
    /\ UNCHANGED << readerVars, dispVars, codecVars, histVars, pdb_echoed,
                    direct >>

\* _pause_resume_script lines 277-285: paused, so resume
ResumeClick ==
    /\ uiPc = "idle"
    /\ btnPause
    /\ uiOps < MaxUiOps
    /\ is_paused
    /\ uiOps' = uiOps + 1
    /\ \/ LET result == CallResult(CurrentProcess)
          IN /\ lastCall' = CallRecord("resume", result)
             /\ IF result = "true"
                THEN /\ proc' = [proc EXCEPT
                                    ![Owner(current_runner)] = "running"]
                     /\ paused' = PausedAfterResume(paused)
                     /\ queue' = Put(queue, Item("Process was resumed",
                                                 SYSINFO, FALSE, -1, 0,
                                                 NoExitCode))
                ELSE UNCHANGED << proc, paused, queue >>
             /\ UNCHANGED kids
       \/ WalkFails("resume", "running")
    /\ UNCHANGED << lock, current_runner, runner, oscode,
                    r_terminated, rec, termCalled, threadVars, seqVars, uiPc,
                    btnStop, btnPause, syncRuns >>
    /\ UNCHANGED << readerVars, dispVars, codecVars, histVars, pdb_echoed,
                    direct >>

\* ------------------------------------------- AsyncOutputController
\* main_window.py lines 61-73: the handler names with a callback
api_callbacks ==
    {Handler(x, "progress") :
        x \in {"determinate", "hide", "indeterminate", "show", "update"}}
    \cup {Handler(x, "status") : x \in {"clear", "get", "set"}}
    \cup {Handler("", "setting")}

\* (mutant) a dispatcher that calls the callback without the data
_api_handler_no_data(log, handler, data) ==
    Append(log, [handler |-> handler, data |-> << >>])

\* _api_handler lines 62-70: the callback is called with the data; log is the
\* calls made so far
_api_handler(log, handler, data) ==
    Append(log, [handler |-> handler, data |-> data])

\* the element of the scheduled calls is a decoded API message
IsApi(x) == "handler" \in DOMAIN x

\* _schedule_ui_update lines 292-293: None is not scheduled
_schedule_ui_update(scheduled, processed) ==
    IF IsApi(processed) /\ processed.type = "none" THEN scheduled
    ELSE Append(scheduled, processed)

\* _async_processor lines 78-89 with _async_process_queue_item: one turn of
\* the loop.  CLEAROUTPUT is handled at once and scheduled as well.
Process ==
    /\ qhead < Len(queue)
    /\ qhead' = qhead + 1
    /\ transcript' = IF queue[qhead + 1] = Control(CLEAROUTPUT)
                     THEN << >> ELSE transcript
    /\ nclear' = IF queue[qhead + 1] = Control(CLEAROUTPUT)
                 THEN nclear + 1 ELSE nclear
    /\ uiTouch' = IF queue[qhead + 1] = Control(CLEAROUTPUT)
                  THEN uiTouch \cup {Touch("dispatcher", "clear")}
                  ELSE uiTouch
    /\ uiq' = IF queue[qhead + 1] = Control(PROCESSTERMINATED) THEN uiq
              ELSE _schedule_ui_update(
                       uiq, _normalize_queue_item(queue[qhead + 1]))
    /\ UNCHANGED << coordVars, runnerVars, threadVars, seqVars, uiVars,
                    queue, syncRuns, readerVars, rec_out, rec_end,
                    btnContinue, calls, respq, contLog, codecVars, lastTerm,
                    asyncRun, kids, pdb_echoed, direct >>

\* the attributes Settings.get finds (models/settings.py line 219); any
\* other key raises AttributeError
SettingsKeys == {"keepass_shortcut", "send_mail_on_error",
                 "include_ss_in_error_mail"}

\* the text of the status label after the callbacks of the log, as the
\* sequence of the texts it was put together from: clear_status line 730
\* empties it, set_status lines 751-758 replaces it or, with a true
\* 'append', adds to it; no other callback touches the label
RECURSIVE StatusText(_)
StatusText(log) ==
    IF log = << >> THEN << >>
    ELSE LET c == log[Len(log)]
             before == StatusText(SubSeq(log, 1, Len(log) - 1))
             set == Get(c.data, "set", NoneVal).s
         IN IF c.handler = Handler("clear", "status") THEN << >>
            ELSE IF c.handler = Handler("set", "status")
            THEN IF Get(c.data, "append", NoneVal) = Bool(TRUE)
                 THEN Append(before, set)
                 ELSE << set >>
            ELSE before

\* the string the label holds, as a value passed to send_api_response
StatusValue(pieces) == IF pieces = << >> THEN Str("") ELSE Str(pieces)

\* main_window.py setting lines 718-720 and get_status lines 737-739, under
\* ui_guard_method: the send_api_response calls the handler schedules
Responses(handler, data) ==
    IF current_runner = 0 THEN << >>
    ELSE IF handler = Handler("get", "status")
    THEN << StatusValue(StatusText(calls)) >>
    ELSE IF handler = Handler("", "setting")
    THEN IF Get(data, "key", NoneVal).s \in SettingsKeys
         THEN << Str(Get(data, "key", NoneVal).s) >>
         ELSE << >>
    ELSE << >>

\* (mutant) only the error tag counts as a system tag
SysTagsErrorOnly == {SYSERROR}

\* OutputStyleTags whose name starts with SYS
SysTags == {SYSERROR, SYSINFO, SYSWARNING}

\* _handle_ui_update lines 142-186: one scheduled call, on the Tk thread
UiUpdate ==
    /\ uiq # << >>
    /\ uiq' = Tail(uiq)
    /\ LET queue_item == Head(uiq)
       IN IF IsApi(queue_item)
          THEN /\ IF queue_item.handler \in api_callbacks
                  THEN /\ calls' = _api_handler(calls, queue_item.handler,
                                                queue_item.data)
                       /\ respq' = respq \o Responses(queue_item.handler,
                                                      queue_item.data)
                       /\ uiTouch' = uiTouch \cup
                              {Touch("ui", queue_item.handler[2])}
                  ELSE UNCHANGED << calls, respq, uiTouch >>
               /\ UNCHANGED << transcript, rec_out, rec_end, btnContinue,
                               nclear >>
          ELSE IF queue_item = Control(CLEAROUTPUT)
          THEN /\ transcript' = << >>
               /\ nclear' = nclear + 1
               /\ uiTouch' = uiTouch \cup {Touch("ui", "clear")}
               /\ UNCHANGED << rec_out, rec_end, btnContinue, calls, respq >>
          ELSE /\ transcript' = Append(transcript, queue_item)
               /\ uiTouch' = uiTouch \cup
                      ({Touch("ui", "insert")} \cup
                       IF queue_item.breakpoint
                       THEN {Touch("ui", "button")} ELSE {})
               /\ IF queue_item.tag \in SysTags
                  THEN /\ rec_out' = rec_out
                       /\ IF queue_item.breakpoint
                          THEN btnContinue' = TRUE /\ rec_end' = rec_end
                          ELSE /\ btnContinue' = btnContinue
                               /\ rec_end' =
                                    IF queue_item.finished
                                       /\ queue_item.exec_item \in Records
                                    THEN [rec_end EXCEPT
                                            ![queue_item.exec_item] = @ + 1]
                                    ELSE rec_end
                  ELSE IF queue_item.exec_item \in Records
                  THEN /\ rec_out' = [rec_out EXCEPT ![queue_item.exec_item] =
                                         Append(@, queue_item)]
                       /\ rec_end' =
                            IF queue_item.finished
                            THEN [rec_end EXCEPT
                                    ![queue_item.exec_item] = @ + 1]
                            ELSE rec_end
                       /\ btnContinue' = btnContinue
                  ELSE UNCHANGED << rec_out, rec_end, btnContinue >>
               /\ UNCHANGED << calls, respq, nclear >>
    /\ UNCHANGED << coordVars, runnerVars, threadVars, seqVars, uiVars,
                    queue, syncRuns, readerVars, qhead, contLog, codecVars,
                    lastTerm, asyncRun, kids, pdb_echoed, direct >>

\* the lambda scheduled by root.after( 10, ... ): it reads current_runner
\* when it runs and calls send_api_response (script_runner.py lines
\* 296-303), whose bare except swallows a missing or closed stdin
ResponseLine(response) ==
    << T(MESSAGE_START), T(response.s), T(MESSAGE_END), NL >>

SendResponse ==
    /\ respq # << >>
    /\ respq' = Tail(respq)
    /\ IF current_runner # 0 /\ proc[Owner(current_runner)] \in {"running", "suspended"}
       THEN LET t == Owner(current_runner)
            IN /\ stdin' = [stdin EXCEPT ![t] = Append(@, ResponseLine(Head(respq)))]
               /\ childWait' = [childWait EXCEPT
                                  ![t] = IF @ = "response" THEN "no" ELSE @]
       ELSE UNCHANGED << stdin, childWait >>
    /\ UNCHANGED << coordVars, runnerVars, threadVars, seqVars, uiVars,
                    queue, syncRuns, in_breakpoint, errpipe, nlines, qhead,
                    uiq, transcript, rec_out, rec_end, btnContinue, calls,
                    contLog, codecVars, histVars, kids, pdb_echoed, direct >>

\* ScriptMenuItem.process (script_menu_item.py line 43): set to None when
\* the menu item is built and assigned nowhere else
menu_item_process == "none"

\* the token continue_breakpoint writes (script_menu_item.py line 156)
ContinueToken == << T("c"), NL >>

\* The operator clicks Continue: _continue_breakpoint (main_window.py lines
\* 204-205) calls running_automation.continue_breakpoint(), which writes the
\* token to ScriptMenuItem.process.stdin.  With no such process the call
\* raises before line 205 and the button stays enabled; the runner's child
\* and the runner's _in_breakpoint are not touched by either path.
ContinueClick ==
    /\ btnContinue
    /\ uiPc = "idle"
    /\ uiOps < MaxUiOps
    /\ uiOps' = uiOps + 1
    /\ contLog' = Append(contLog, [runner |-> current_runner,
                                   process |-> menu_item_process])
    /\ btnContinue' = (menu_item_process = "none")
    /\ UNCHANGED << coordVars, runnerVars, threadVars, seqVars, uiPc,
                    btnStop, btnPause, lastCall, queue, syncRuns, readerVars,
                    qhead, uiq, transcript, rec_out, rec_end, calls, respq,
                    codecVars, histVars, kids, pdb_echoed, direct >>

\* ------------------------------------------------------- specifications
RunnerStep ==
    \/ \E t \in Threads : CrAcquire(t)
    \/ \E t \in Threads : CrCheck(t)
    \/ \E t \in Threads : SpawnOk(t)
    \/ \E t \in Threads : SpawnFail(t)
    \/ \E t \in Threads : CollectDone(t)
    \/ \E t \in Threads : ChildExit(t)
    \/ \E t \in Threads : Monitor(t)
    \/ \E t \in Threads : ScopeExcept(t)
    \/ \E t \in Threads : FinAcquire(t)
    \/ \E t \in Threads : FinRelease(t)

SequenceStep == RunSequence \/ SeqReadBack \/ SeqLoop \/ SeqFinished

SyncStep == StartSync \/ SyncWait \/ SyncPropagate

ButtonStep == StopBegin \/ StopKill \/ PauseClick \/ ResumeClick

\* the whole system: a sequence, a run_script_sync caller and the operator
Next == RunnerStep \/ SequenceStep \/ SyncStep \/ ButtonStep
Spec == Init /\ [][Next]_vars

\* a sequence and an operator at the buttons; nothing calls run_script_sync
NextSeq == RunnerStep \/ SequenceStep \/ ButtonStep
SpecSeq == Init /\ [][NextSeq]_vars

\* a sequence and a run_script_sync caller contending for the slot; the
\* operator leaves the buttons alone
NextThreads == RunnerStep \/ SequenceStep \/ SyncStep
SpecThreads == Init /\ [][NextThreads]_vars


\* a sequence and a script started from the menu or by run_script_sync,
\* contending for the slot
NextDirect == RunnerStep \/ SequenceStep \/ SyncStep \/ StartDirect
SpecDirect == Init /\ [][NextDirect]_vars

\* the same with a caller of run_script_async
NextAsync == NextThreads \/ RunScriptAsync
SpecAsync == Init /\ [][NextAsync]_vars

\* what the running script does, as its runner's readers see it
ScriptStep ==
    \/ \E t \in Threads : ScriptPrint(t)
    \/ \E t \in Threads : ScriptPrintErr(t)
    \/ \E t \in Threads : ScriptBreak(t)
    \/ \E t \in Threads : ScriptApi(t)
    \/ \E t \in Threads : ScriptGarbled(t)
    \/ \E t \in Threads : ReadStderr(t)

DispatchStep == Process \/ UiUpdate \/ SendResponse

\* a script run by run_script_sync that writes output and calls the API,
\* the dispatcher, and an operator who only has the Continue button
NextOutput == RunnerStep \/ SyncStep \/ ScriptStep \/ DispatchStep
              \/ ContinueClick
SpecOutput == Init /\ [][NextOutput]_vars

\* a turn of the dispatcher's loop, by what it does to the count of items
\* taken: Process is the only action that changes qhead, and it can take a
\* turn whenever an item is waiting
ProcessTurn == qhead < Len(queue) /\ qhead' = qhead + 1

\* The same with the scheduling the code has: the dispatcher's thread loops
\* on the queue (_async_processor), Tk's main loop runs every callback given
\* to after(), and the thread of the run goes on whenever it can.
SpecOutputFair ==
    /\ SpecOutput
    /\ WF_qhead(ProcessTurn)
    /\ WF_vars(UiUpdate)
    /\ WF_vars(SendResponse)
    /\ WF_vars(RunnerStep)

\* the same with a script that frames a message of its own
NextHandlers == NextOutput \/ (\E t \in Threads : ScriptApiUnknown(t))
SpecHandlers == Init /\ [][NextHandlers]_vars

\* the same with the lines pdb writes when it halts
NextBreak == NextOutput \/ (\E t \in Threads : PdbEcho(t))
SpecBreak == Init /\ [][NextBreak]_vars

\* The same, and the reader of stderr reads on whenever a line is there for
\* it to read.  The child is not bound to exit.
StderrTurn == \E t \in Threads : ReadStderr(t)
SpecReadersFair ==
    /\ SpecOutputFair
    /\ WF_vars(StderrTurn)

\* the scripts of a sequence write lines to both streams and the dispatcher
\* files them
LineStep ==
    \/ \E t \in Threads : ScriptPrint(t)
    \/ \E t \in Threads : ScriptPrintErr(t)
    \/ \E t \in Threads : ReadStderr(t)
    \/ Process
    \/ UiUpdate

NextLines == RunnerStep \/ SequenceStep \/ LineStep
SpecLines == Init /\ [][NextLines]_vars

\* A sequence whose scripts may halt at a breakpoint, and an operator at the
\* Stop and Pause/Resume buttons.  The threads go on whenever they can: the
\* thread of the sequence, the waiter on the child, and terminate() once it
\* has begun.
NextStop == RunnerStep \/ SequenceStep \/ ButtonStep
            \/ (\E t \in Threads : ScriptBreak(t))
SpecStopFair ==
    /\ Init /\ [][NextStop]_vars
    /\ WF_vars(RunnerStep)
    /\ WF_vars(SequenceStep)
    /\ WF_vars(StopKill)

\* ------------------------------------------------- the protocol alone
\* a script calls an entry point of script_api: _send prints the line
ScriptCalls ==
    /\ c_phase = "idle"
    /\ \E call \in ApiCalls :
          /\ c_call' = call
          /\ c_wire' = ApiLine(call)
    /\ c_phase' = "printed"
    /\ c_result' = NoResult
    /\ UNCHANGED << coordVars, runnerVars, threadVars, seqVars, uiVars,
                    queue, syncRuns, readerVars, dispVars, histVars, kids, pdb_echoed, direct >>

\* the host reads the line (_read_stdout) and decodes the event
\* (_normalize_queue_item, _parse_api_message)
HostDecodes ==
    /\ c_phase = "printed"
    /\ c_result' = _normalize_queue_item(StdoutItem(0, c_wire))
    /\ c_phase' = "decoded"
    /\ UNCHANGED << coordVars, runnerVars, threadVars, seqVars, uiVars,
                    queue, syncRuns, readerVars, dispVars, c_call, c_wire,
                    histVars, kids, pdb_echoed, direct >>

\* the script goes on to its next call
ScriptReturns ==
    /\ c_phase = "decoded"
    /\ c_phase' = "idle"
    /\ c_call' = NoApiCall
    /\ c_wire' = << >>
    /\ c_result' = NoResult
    /\ UNCHANGED << coordVars, runnerVars, threadVars, seqVars, uiVars,
                    queue, syncRuns, readerVars, dispVars, histVars, kids, pdb_echoed, direct >>

\* a sequence whose scripts start processes of their own, and an operator at
\* the buttons
NextTree == RunnerStep \/ SequenceStep \/ ButtonStep
            \/ (\E t \in Threads : ScriptForks(t))
SpecTree == Init /\ [][NextTree]_vars

\* a script that only prints, to stdout and to stderr, as much as it likes,
\* run by run_script_sync
NextPipes ==
    \/ RunnerStep
    \/ SyncStep
    \/ \E t \in Threads : ScriptPrint(t)
    \/ \E t \in Threads : ScriptPrintErr(t)
    \/ \E t \in Threads : ScriptStderrFull(t)
    \/ \E t \in Threads : ReadStderr(t)
SpecPipes == Init /\ [][NextPipes]_vars

\* The same with the scheduling the code has: the threads of the runs go on
\* whenever they can, a reader that has a line to read reads it, and a child
\* that is not blocked comes to its end.
ChildEnds == \E t \in Threads : ChildExit(t)
SpecPipesFair ==
    /\ SpecPipes
    /\ WF_vars(RunnerStep)
    /\ WF_vars(SyncStep)
    /\ WF_vars(StderrTurn)
    /\ WF_vars(ChildEnds)

\* the get_status() calls the child of thread t has made: the lines of its
\* runner on the queue that are the frame get_status sends
GetStatusCalls(t) ==
    {k \in 1..Len(queue) : /\ queue[k].exec_item = runner[t]
                          /\ queue[k].line = "stdout"
                          /\ queue[k].text = rstrip(ApiLine(get_status))}

\* the frames in the child's stdin that no _get_api_response has read: each
\* call that has returned has read one (script_api.py lines 25-38)
UnreadFrames(t) ==
    Len(stdin[t]) - (Cardinality(GetStatusCalls(t))
                     - IF childWait[t] = "response" THEN 1 ELSE 0)

\* the script asks for the status text: get_status sends the frame and
\* _get_api_response reads stdin up to the end of the first frame, which it
\* waits for unless one is there already
ScriptGetsStatus(t) ==
    ReadStdout(t, ApiLine(get_status),
               IF UnreadFrames(t) > 0 THEN "no" ELSE "response")

\* the script sets the status text (script_api.py set_status lines 169-183:
\* _send, and no wait)
ScriptSetsStatus(t) ==
    \E text \in Texts, append \in BOOLEAN :
        ReadStdout(t, ApiLine(set_status(text, append)), "no")

\* the operator starts a sequence when the script started through
\* run_script_sync has come to its end
RunSequenceAfterSync == syncRuns > 0 /\ pc["sync"] = "idle" /\ RunSequence

\* a script that asks for the status text, run by run_script_sync, the
\* dispatcher, an operator at the Stop button, and the first step of a
\* sequence started afterwards, whose script writes nothing
NextReply ==
    \/ RunnerStep
    \/ SyncStep
    \/ ScriptGetsStatus("sync")
    \/ DispatchStep
    \/ StopBegin
    \/ StopKill
    \/ RunSequenceAfterSync
SpecReply == Init /\ [][NextReply]_vars

\* a script that sets and asks for the status text, run by run_script_sync,
\* and the dispatcher
NextStatus ==
    \/ RunnerStep
    \/ SyncStep
    \/ ScriptGetsStatus("sync")
    \/ ScriptSetsStatus("sync")
    \/ DispatchStep
SpecStatus == Init /\ [][NextStatus]_vars

NextCodec == ScriptCalls \/ HostDecodes \/ ScriptReturns
SpecCodec == Init /\ [][NextCodec]_vars

\* ================================================================ claims
\* the thread is inside the scope of a create_runner() it entered
InScope(t) == pc[t] \in {"spawn", "reading", "collect", "after_run", "except",
                         "finally", "finally_locked"}

\* number of positions of the queue in the set S
Count(S) == Cardinality(S)

\* the positions of the queue
Positions == 1..Len(queue)

\* ---------------------------------------------------------------- C1
C1_OneRunner ==
    /\ \A t, u \in Threads : InScope(t) /\ InScope(u) => t = u
    /\ \A t \in Threads : InScope(t) => current_runner = runner[t]

C1_Refused ==
    \A t \in Threads :
        (pc[t] = "create_locked" /\ current_runner # 0 /\ pc'[t] # pc[t])
        => /\ pc'[t] = "propagate"
           /\ exc'[t] = "RuntimeError"
           /\ current_runner' = current_runner
           /\ runner' = runner
           /\ queue' = queue

\* C1: under every interleaving of create_runner() calls at most one thread
\* is inside a scope and its runner is current_runner; a call that finds a
\* runner active raises RuntimeError in that very step, creating no runner
\* and leaving current_runner as it is.
C1_SingleFlight == [](C1_OneRunner) /\ [][C1_Refused]_vars

\* a call was refused while the other thread's runner is active
C1_Witness ==
    \E t, u \in Threads :
        /\ t # u
        /\ pc[t] = "propagate" /\ exc[t] = "RuntimeError"
        /\ InScope(u) /\ current_runner = runner[u]

\* ---------------------------------------------------------------- C2
C2_Exit ==
    \A t \in Threads :
        /\ (pc[t] = "finally_locked" /\ pc'[t] # pc[t])
           => current_runner' = 0 /\ ~is_running'
        /\ (pc[t] = "create_locked" /\ current_runner = 0 /\ pc'[t] # pc[t])
           => pc'[t] = "spawn" /\ current_runner' = runner'[t]
                /\ current_runner' # 0
        /\ (pc[t] = "create_locked" /\ current_runner # 0 /\ pc'[t] # pc[t])
           => current_runner' = current_runner

\* C2: every exit of a create_runner() scope, normal or by exception, resets
\* current_runner to None, so is_running() is false and a create_runner()
\* that finds the slot free succeeds; a refused create_runner() leaves
\* current_runner untouched.  While no thread is in a scope the slot is free.
C2_Release ==
    /\ []((\A t \in Threads : ~InScope(t)) => current_runner = 0 /\ ~is_running)
    /\ [][C2_Exit]_vars

\* both exit paths were taken: the sequence thread left a scope normally and
\* took the slot again, after run_script_sync had left its scope by exception
C2_Witness ==
    /\ raised["sync"] = "AttributeError"
    /\ step > 1 /\ pc["seq"] = "spawn" /\ exc["seq"] = "none"
    /\ current_runner = runner["seq"]

\* ---------------------------------------------------------------- C3
Live == {"running", "suspended"}

AbortedItem(i) == {k \in Positions : queue[k].line = "Aborted by user at step" /\ queue[k].i = i
                             /\ queue[k].tag = SYSINFO}

\* C4: once a step's run was terminated by the user the for loop stays at
\* that step (no later step is started) and one 'Aborted by user at step N'
\* system-info event is on the queue for it.
C4_AbortOnTerminate ==
    abortWhy = "user" => step = abortAt /\ Count(AbortedItem(abortAt)) = 1

\* ---------------------------------------------------------------- C5
StoppedItem(i) == {k \in Positions : queue[k].line = "Stopped on error at step" /\ queue[k].i = i
                             /\ queue[k].tag = SYSERROR /\ queue[k].e # 0}

\* C5: once a step failed with step.stop_on_error or sequence.stop_on_error
\* set, the for loop stays at that step and one system-error event naming
\* the step and the exit code is on the queue.
C5_StopOnError ==
    abortWhy = "error" => step = abortAt /\ Count(StoppedItem(abortAt)) = 1

\* ---------------------------------------------------------------- C6
FailedItem(i, e) == {k \in Positions : queue[k].line = "Step failed" /\ queue[k].i = i /\ queue[k].e = e
                               /\ queue[k].tag = SYSWARNING}

\* the locals of line 804-807 say that the step failed and no stop flag
\* covers it (no exception is in flight, so the locals are this step's)
C6_Case ==
    /\ bodyExc["seq"] = "none" /\ exc["seq"] = "none"
    /\ ~terminated /\ exit_code # 0 /\ ~effective_stop

C6_Step ==
    (pc["seq"] = "after_scope" /\ C6_Case /\ pc'["seq"] # pc["seq"])
    => /\ queue' = queue
       /\ IF step < NumSteps
          THEN step' = step + 1 /\ pc'["seq"] = "create"
          ELSE pc'["seq"] = "finish"

\* C6: when a step has exited with a non-zero code, unterminated, with
\* neither stop flag set, exactly one system-warning event for the step is
\* on the queue and the loop goes on to the next step (or ends after the
\* last one) without the summary event.
C6_WarnAndContinue ==
    /\ [](pc["seq"] \in {"finally", "finally_locked", "after_scope"} /\ C6_Case
          => Count(FailedItem(step, exit_code)) = 1 /\ run_success = 0)
    /\ [][C6_Step]_vars

\* the step after a failed step has got its runner
C6_Witness ==
    /\ pc["seq"] = "spawn" /\ step > 1
    /\ C6_Case
    /\ Count(FailedItem(step - 1, exit_code)) = 1

\* ---------------------------------------------------------------- C7
SummaryItems == {k \in Positions : queue[k] = SummaryItem}

\* C7: when the sequence thread is done without an exception, the summary
\* system-warning event is on the queue exactly once if a step was terminated
\* or failed under effective stop, and not at all otherwise.
C7_Summary ==
    (pc["seq"] = "done" /\ raised["seq"] = "none")
    => Count(SummaryItems) = (IF abortWhy # "none" THEN 1 ELSE 0)

\* ---------------------------------------------------------------- C8
ExceptionItemOf(r) == {k \in Positions : queue[k].line = "Exception" /\ queue[k].tag = SYSERROR
                                 /\ queue[k].finished /\ queue[k].exec_item = r}

\* C8: when the body of a scope has raised, the except clause has put exactly
\* one finished system-error event tagged with the runner's record, the
\* exception in flight and the one the caller gets are the one the body
\* raised, and the runner is no longer current_runner once the scope is left.
C8_ExceptionReported ==
    \A t \in Threads :
        bodyExc[t] # "none"
        => /\ pc[t] \in {"finally", "finally_locked", "propagate"}
              => exc[t] = bodyExc[t]
           /\ pc[t] \in {"idle", "done"} => raised[t] = bodyExc[t]
           /\ pc[t] \in {"finally", "finally_locked", "propagate", "idle", "done"}
              => Count(ExceptionItemOf(runner[t])) = 1
           /\ pc[t] \in {"propagate", "idle", "done"}
              => current_runner # runner[t]

\* both callers got their body's exception back: run_script_sync the
\* AttributeError of line 280, the sequence thread one raised after a failed
\* spawn
C8_Witness ==
    /\ pc["sync"] = "idle" /\ raised["sync"] = "AttributeError"
    /\ pc["seq"] = "done" /\ bodyExc["seq"] # "none"
    /\ raised["seq"] = bodyExc["seq"]

\* ---------------------------------------------------------------- C9
\* C9: after pause_current_script() returned true and then
\* resume_current_script() returned true for the same runner, while that
\* runner's child is running, is_paused() is false and is_running() is true.
C9_BackToRunning ==
    (/\ lastCall.name = "resume" /\ lastCall.result = "true"
     /\ lastCall.prev_name = "pause" /\ lastCall.prev_result = "true"
     /\ lastCall.prev_runner = lastCall.runner
     /\ current_runner = lastCall.runner
     /\ CurrentProcess = "running")
    => ~is_paused /\ is_running

\* ---------------------------------------------------------------- C10
\* C10: a pause_current_script() or resume_current_script() call that finds
\* no active runner, or an active runner whose process has exited, returns
\* false (it does not raise) and leaves the paused flag alone.
C10_FalseWhenNothingToPause ==
    (lastCall.name # "none" /\ lastCall.process \in {"no runner", "exited"})
    => lastCall.result = "false"

\* ---------------------------------------------------------------- C11
\* the waiter's events for record r on the queue
TerminalEvents(r) ==
    {k \in Positions : /\ queue[k].exec_item = r
                       /\ queue[k].finished
                       /\ queue[k].line \in {"Script terminated",
                                             "Script completed successfully",
                                             "Script failed"}}

\* the severity the waiter must report for a completed record
TerminalTag(h) ==
    IF h.was_terminated THEN SYSINFO
    ELSE IF h.exit_code = 0 THEN SUCCESS ELSE SYSERROR

\* C11: once a child has exited and the waiter has run, the record holds the
\* child's exit code and exactly one finished terminal event for the record
\* is on the queue, with severity system-info if the run was terminated,
\* success if it was not and the code is 0, system-error otherwise; before
\* that no terminal event for the record is on the queue.
C11_TerminalEvent ==
    \A t \in Threads :
        /\ (rec[t].exists /\ rec[t].exit_code = NoExitCode)
           => TerminalEvents(runner[t]) = {}
        /\ rec[t].exit_code # NoExitCode
           => /\ rec[t].exit_code = oscode[t]
              /\ Cardinality(TerminalEvents(runner[t])) = 1
              /\ \A k \in TerminalEvents(runner[t]) :
                    /\ queue[k].tag = TerminalTag(rec[t])
                    /\ queue[k].tag = SYSERROR => queue[k].e = rec[t].exit_code

\* a terminated run whose child exited by itself with code 0 was reported as
\* terminated, after an earlier step was reported as failed
C11_Witness ==
    /\ rec["seq"].exit_code = 0 /\ rec["seq"].was_terminated
    /\ \E k \in TerminalEvents(runner["seq"]) : queue[k].tag = SYSINFO
    /\ \E r \in Records : \E k \in TerminalEvents(r) : queue[k].tag = SYSERROR

\* ---------------------------------------------------------------- C12
\* the breakpoint events of the queue that belong to record r
BreakpointEvents(r) ==
    {k \in Positions : queue[k].breakpoint /\ queue[k].exec_item = r}

\* the runner of thread t is the current one and is halted at a breakpoint
Halted(t) ==
    /\ runner[t] # 0
    /\ current_runner = runner[t]
    /\ in_breakpoint[t]
    /\ childWait[t] = "debugger"

\* C12, the reader's half: a halted runner has put one breakpoint-flagged
\* system-info event that carries the row pdb printed, and no info line, for
\* the line it read.
C12_HaltReported ==
    \A t \in Threads :
        Halted(t) =>
            /\ Count(BreakpointEvents(runner[t])) = 1
            /\ \A k \in BreakpointEvents(runner[t]) :
                   /\ queue[k].tag = SYSINFO
                   /\ \E j \in 1..Len(queue[k].text) :
                          queue[k].text[j] = N(nlines)
            /\ \A k \in Positions :
                   queue[k].tag = INFO =>
                       T("<module>()") \notin
                           {queue[k].text[j] : j \in 1..Len(queue[k].text)}

\* C12: a line matching the module-frame pattern halts the runner and is
\* reported by one breakpoint event; when the operator then clicks Continue
\* the continue token is written to the stdin of that runner's child and the
\* runner is no longer halted.
C12_BreakpointRoundTrip ==
    [][\A t \in Threads :
          (Halted(t) /\ Len(contLog') > Len(contLog)) =>
              /\ stdin'[t] = Append(stdin[t], ContinueToken)
              /\ ~in_breakpoint'[t]]_vars

\* a Continue click was made while the current runner was halted
C12_ContinueWhileHalted ==
    /\ contLog # << >>
    /\ \E t \in Threads : Halted(t) /\ btnContinue

\* ---------------------------------------------------------------- C13
\* the handler the kind of a call fixes
ExpectedHandler(call) ==
    IF call.kind = "percent" THEN Handler("update", "progress")
    ELSE IF call.kind = "progress_set"
    THEN Handler(Get(call.data, "set", NoneVal).s, "progress")
    ELSE IF call.kind = "status_clear" THEN Handler("clear", "status")
    ELSE IF call.kind = "status_get" THEN Handler("get", "status")
    ELSE IF call.kind = "status_text" THEN Handler("set", "status")
    ELSE Handler("", "setting")

\* C13: every message an entry point of the script API emits, framed by
\* _send and decoded by _parse_api_message, yields the original data and the
\* handler fixed by the kind of the message.
C13_RoundTrip ==
    c_phase = "decoded" =>
        c_result = ApiResult(ExpectedHandler(c_call), c_call.data)

\* C13 for the calls whose text is neither a keyword of the protocol nor
\* holds a sentinel: these do make the round trip
C13_RoundTripPlainText ==
    (c_phase = "decoded" /\ (c_call.kind = "status_text" =>
                                Get(c_call.data, "set", NoneVal).s = "working")) =>
        c_result = ApiResult(ExpectedHandler(c_call), c_call.data)

\* ---------------------------------------------------------------- C14
\* the tokens of the texts the runner of thread t has put on the queue
RequestTokens(t) ==
    UNION {{queue[k].text[j] : j \in 1..Len(queue[k].text)} :
              k \in {x \in Positions : queue[x].exec_item = runner[t]}}

\* the child of thread t has a framed response on its stdin and goes on
Answered(t) == childWait[t] = "no" /\ stdin[t] # << >>

\* C14: every get-style request a running child emits and blocks on (status
\* get, setting get with any key) is eventually answered by a framed
\* response written to that child's stdin.
C14_ResponseWritten ==
    \A t \in Threads : (childWait[t] = "response") ~> Answered(t)

\* C14 for the requests whose key is an attribute of Settings, and for
\* status get: these are answered
C14_KnownKeyAnswered ==
    \A t \in Threads :
        (childWait[t] = "response"
         /\ T("no_such_setting") \notin RequestTokens(t)) ~> Answered(t)

\* C14: a child is never sent more responses than it made requests
C14_AtMostOneEach ==
    \A t \in Threads :
        runner[t] # 0 =>
            Len(stdin[t]) <=
                Count({k \in Positions :
                          /\ queue[k].exec_item = runner[t]
                          /\ T(MESSAGE_START) \in
                                {queue[k].text[j] : j \in 1..Len(queue[k].text)}
                          /\ P("}") = queue[k].text[Len(queue[k].text) - 1]})

\* ---------------------------------------------------------------- C15
\* the event is a line a child wrote to stdout or stderr
IsChildLine(x) ==
    /\ x.tag \in {INFO, ERROR}
    /\ x.text # << >>
    /\ x.text[1] = T("output")

\* the dispatcher has nothing left to do
CaughtUp == qhead = Len(queue) /\ uiq = << >>

\* C15: every non-system line of a run is appended to the Execution Record
\* of that run and to no other, once, and the lines of one stream are in the
\* record in the order the child wrote them, however the two streams of the
\* run follow each other on the queue.
C15_LinesFiled ==
    \A r \in Records :
        /\ \A k \in 1..Len(rec_out[r]) :
               /\ rec_out[r][k].exec_item = r
               /\ IsChildLine(rec_out[r][k]) => rec_out[r][k].text[2] = N(r)
        /\ \A i, j \in 1..Len(rec_out[r]) :
               (/\ i < j
                /\ IsChildLine(rec_out[r][i]) /\ IsChildLine(rec_out[r][j])
                /\ rec_out[r][i].tag = rec_out[r][j].tag)
               => rec_out[r][i].text[3].n < rec_out[r][j].text[3].n
        /\ CaughtUp =>
               \A k \in Positions :
                   (IsChildLine(queue[k]) /\ queue[k].text[2] = N(r)) =>
                       Count({i \in 1..Len(rec_out[r]) :
                                 rec_out[r][i] = queue[k]}) = 1

\* the record of a later step holds a line of each stream of its run, the
\* stderr line written first and filed last
C15_Witness ==
    \E r \in Records :
        /\ r > 1
        /\ Len(rec_out[r]) >= 2
        /\ IsChildLine(rec_out[r][1]) /\ rec_out[r][1].tag = INFO
        /\ IsChildLine(rec_out[r][2]) /\ rec_out[r][2].tag = ERROR
        /\ rec_out[r][2].text[3].n < rec_out[r][1].text[3].n

\* ---------------------------------------------------------------- C16
\* the event carries the sentinels around JSON that cannot be decoded
IsGarbled(x) ==
    /\ ~IsApi(x)
    /\ x.text = rstrip(GarbledLine(hide_progress))

\* the event carries a well-formed message of the API
IsRequest(x) ==
    /\ ~IsApi(x)
    /\ \E call \in RunCalls : x.text = rstrip(ApiLine(call))

\* the garbled events the dispatcher has taken from the queue
GarbledTaken == {k \in 1..qhead : IsGarbled(queue[k])}

\* C16: a queued line with the sentinels around malformed JSON is dropped:
\* it is not scheduled, not inserted in the transcript, not appended to a
\* record, no handler is called for it, and the dispatcher goes on to the
\* events enqueued after it.
C16_GarbledDropped ==
    /\ \A k \in 1..Len(uiq) : ~IsGarbled(uiq[k])
    /\ \A k \in 1..Len(transcript) : ~IsGarbled(transcript[k])
    /\ \A r \in Records : \A k \in 1..Len(rec_out[r]) :
           ~IsGarbled(rec_out[r][k])
    /\ Len(calls) + Count({k \in 1..Len(uiq) : IsApi(uiq[k])})
           = Count({k \in 1..qhead : IsRequest(queue[k])})
    /\ CaughtUp =>
           \A k \in Positions :
               (~IsGarbled(queue[k]) /\ ~IsRequest(queue[k])) =>
                   \E i \in 1..Len(transcript) : transcript[i] = queue[k]

\* the dispatcher took a garbled event and then filed a line the child
\* wrote after it
C16_Witness ==
    /\ CaughtUp
    /\ \E k \in GarbledTaken : \E j \in (k + 1)..Len(queue) :
           /\ IsChildLine(queue[j])
           /\ \E i \in 1..Len(transcript) : transcript[i] = queue[j]
           /\ \E i \in 1..Len(rec_out[queue[j].exec_item]) :
                  rec_out[queue[j].exec_item][i] = queue[j]

\* ---------------------------------------------------------------- C17
\* the threads whose runner's Execution Record is record r
HoldersOf(r) == {t \in Threads : runner[t] = r /\ rec[t].exists}

\* C17: the exit code and the end timestamp of an Execution Record are
\* assigned once and together: in no state is one set and the other unset,
\* and neither is assigned again.
C17_SetOnceTogether ==
    \A r \in Records :
        /\ rec_end[r] <= 1
        /\ \A t \in HoldersOf(r) :
               (rec[t].exit_code # NoExitCode) <=> (rec_end[r] = 1)

\* C17 without the atomicity: once the dispatcher has caught up with a run
\* that is over, its record has both or neither, assigned once
C17_SettledTogether ==
    \A r \in Records :
        /\ rec_end[r] <= 1
        /\ \A t \in HoldersOf(r) :
               (CaughtUp /\ pc[t] \in {"after_run", "finally", "finally_locked"})
               => ((rec[t].exit_code # NoExitCode) <=> (rec_end[r] = 1))

\* ---------------------------------------------------------------- C18
\* the run of thread t's runner is Finished: the child has exited and the
\* completion waiter has enqueued the terminal event
Finished(t) ==
    /\ runner[t] # 0
    /\ current_runner = runner[t]
    /\ proc[t] = "exited"
    /\ pc[t] \in {"after_run", "finally", "finally_locked"}
    /\ TerminalEvents(runner[t]) # {}

\* C18: once a run is Finished, a pause, resume, continue or stop request
\* changes neither the runner's process state, its _terminated flag nor its
\* Execution Record, and enqueues no further event.
C18_FinishedAbsorbing ==
    [][\A t \in Threads :
          (Finished(t) /\ uiOps' > uiOps) =>
              /\ proc'[t] = proc[t]
              /\ r_terminated'[t] = r_terminated[t]
              /\ rec'[t] = rec[t]
              /\ queue' = queue]_vars

\* C18 for the pause and resume requests alone
C18_PauseResumeAbsorbed ==
    [][\A t \in Threads :
          (Finished(t) /\ uiOps' > uiOps /\ lastCall' # lastCall) =>
              /\ proc'[t] = proc[t]
              /\ r_terminated'[t] = r_terminated[t]
              /\ rec'[t] = rec[t]
              /\ queue' = queue]_vars

\* ---------------------------------------------------------------- C19
\* terminate() has been called on the runner r of thread t while its run
\* was not over
StopRequested(t, r) ==
    /\ runner[t] = r
    /\ pc[t] \in {"spawn", "reading"}
    /\ termCalled[t] # {}

\* ... and the call found a child process
StopRequestedOnChild(t, r) ==
    /\ runner[t] = r
    /\ pc[t] = "reading"
    /\ r_terminated[t]

\* the run of runner r is over as a terminated one: its terminal event says
\* so, no child of it lives, and the slot is no longer held for it
FinishedTerminated(r) ==
    /\ \E k \in TerminalEvents(r) : queue[k].line = "Script terminated"
    /\ current_runner # r
    /\ \A t \in Threads :
           runner[t] = r => proc[t] \in {"none", "exited"}

SpawnFailed(t) ==
    /\ runner[t] # 0
    /\ rec[t].exists
    /\ proc[t] = "none"
    /\ bodyExc[t] # "ScreenshotError"
    /\ pc[t] \in {"collect", "after_run", "except", "finally", "finally_locked"}

\* the finished system-error events tagged with record r
ErrorEvents(r) ==
    {k \in Positions :
        /\ queue[k].tag = SYSERROR
        /\ queue[k].finished
        /\ queue[k].exec_item = r}

\* C20: a run whose process creation fails is reported once: exactly one
\* finished system-error event tagged with its record is enqueued for it
\* and no reader or completion event, in a direct run and in a sequence.
C20_ReportedOnce ==
    \A t \in Threads :
        SpawnFailed(t) =>
            /\ Count(ErrorEvents(runner[t])) = 1
            /\ \A k \in Positions :
                   queue[k].exec_item = runner[t] =>
                       queue[k].tag \notin {INFO, ERROR, SUCCESS}

\* C20, the slot: a thread is idle again only with the slot given back
C20_SlotReleased ==
    \A t \in Threads :
        (pc[t] = "idle" /\ \A u \in Threads : ~InScope(u)) =>
            current_runner = 0

\* the thread whose runner the last terminate() was called on
TerminateOwner == Owner(lastTerm.runner)

\* C21: when the kill attempt inside terminate() raised, terminate() has
\* returned normally to its caller, the runner is marked terminated and
\* exactly one system-error event describing the failure has been enqueued.
C21_KillFailureReported ==
    (lastTerm.failed /\ lastTerm.outcome # "pending")
        => /\ lastTerm.outcome = "returned"
           /\ lastTerm.errors = 1

\* C21, the recoverable case: a kill that failed because a descendant had
\* exited by itself is retried, terminate() returns and the failure is
\* reported by one system-error event tagged with the runner's record.
C21_TransientFailureReported ==
    (lastTerm.failed /\ lastTerm.outcome = "returned")
        => /\ lastTerm.errors = 1
           /\ Count({i \in Positions :
                        queue[i] = TerminationError(lastTerm.runner)}) = 1

\* the kills among the steps terminate() has taken
Kills(did) == {i \in DOMAIN did :
                  did[i] \in {"kill_child", "kill_child_raised", "kill_root"}}

\* C24: terminate() on a runner that has a process sets the terminated flag
\* and enqueues the process-terminated Control event before any kill is
\* attempted, and every enumerated descendant is killed before the root.
C24_FlagEventThenDescendantsThenRoot ==
    lastTerm.outcome # "none"
        => /\ Len(lastTerm.did) >= 2
           /\ lastTerm.did[1] = "flag"
           /\ lastTerm.did[2] = "control"
           /\ \A i \in Kills(lastTerm.did) : i > 2
           /\ \A i, j \in Kills(lastTerm.did) :
                 (lastTerm.did[i] = "kill_root" /\ lastTerm.did[j] # "kill_root")
                     => j < i
           /\ lastTerm.outcome = "pending"
                 => /\ r_terminated[TerminateOwner]
                    /\ \E i \in Positions :
                          queue[i] = Control(PROCESSTERMINATED)
                    /\ Kills(lastTerm.did) = {}

\* a terminate() that killed a descendant and then the root has returned
C24_Witness ==
    /\ lastTerm.outcome = "returned"
    /\ \E i, j \in Kills(lastTerm.did) :
          lastTerm.did[i] = "kill_child" /\ lastTerm.did[j] = "kill_root"

\* the event carries a reference to exactly one Execution Record
HasRecord(x) == "exec_item" \in DOMAIN x /\ x.exec_item \in Records

\* the event is a Control event
IsControl(x) == ~IsApi(x) /\ x.tag = "control"

\* C22: every Line event and every decoded ProtocolEnvelope event that
\* reaches dispatch carries a reference to exactly one Execution Record, and
\* the Control events carry none.
C22_EventsCarryOneRecord ==
    /\ \A i \in Positions :
          IF IsControl(queue[i]) THEN ~HasRecord(queue[i])
          ELSE HasRecord(queue[i])
    /\ \A i \in 1..Len(uiq) :
          IF IsControl(uiq[i]) THEN ~HasRecord(uiq[i])
          ELSE HasRecord(uiq[i])

\* C22, the events put on the queue: the lines of the runner and of
\* create_runner carry their record and the Control events carry none.
C22_QueuedLinesCarryOneRecord ==
    \A i \in Positions :
        IF IsControl(queue[i]) THEN ~HasRecord(queue[i])
        ELSE HasRecord(queue[i])

\* C23: once run_script_async has been called it has returned to its caller
\* without an exception, the worker that runs the script has been started on
\* a thread of its own, and on_finished is called once, and only after the
\* script has completed.
C23_AsyncRunsAndReports ==
    asyncRun # NoAsyncRun
        => /\ asyncRun.outcome = "returned"
           /\ asyncRun.thread = "sync_caller"
           /\ asyncRun.on_finished <= 1

\* C25: the readers and the waiter run concurrently with each other and with
\* the caller of run_script, so a line the child has written to stderr is
\* enqueued whether or not stdout has reached end-of-file: it does not stay
\* in the pipe while the child lives on.
C25_StderrReadWhileChildLives ==
    \A t \in Threads : (errpipe[t] # << >>) ~> (errpipe[t] = << >>)

\* C25, what the code does instead: a line is taken from the stderr pipe
\* only when the child has exited, that is after stdout reached end-of-file.
C25_StderrReadAfterExit ==
    [][\A t \in Threads :
          (errpipe[t] # << >> /\ errpipe'[t] = Tail(errpipe[t]))
              => proc[t] = "exited"]_vars

\* a continue has been issued while r was the current runner
ContinueIssued(r) == \E i \in 1..Len(contLog) : contLog[i].runner = r

\* C26: between the breakpoint halt of a run and the next continue issued
\* for it, no stdout line of that run is enqueued as an ordinary info Line.
C26_NoInfoLineWhileHalted ==
    \A t \in Threads :
        (Halted(t) /\ ~ContinueIssued(runner[t]))
            => \A k \in BreakpointEvents(runner[t]) :
                  \A j \in Positions :
                      j > k => ~(/\ queue[j].tag = INFO
                                 /\ queue[j].exec_item = runner[t])

\* the calls scheduled on the Tk thread for the first k items of the queue
RECURSIVE Scheduled(_)
Scheduled(k) ==
    IF k = 0 THEN << >>
    ELSE IF queue[k] = Control(PROCESSTERMINATED) THEN Scheduled(k - 1)
    ELSE _schedule_ui_update(Scheduled(k - 1), _normalize_queue_item(queue[k]))

\* the scheduled calls that have run: the events dispatched so far, in order
Dispatched ==
    LET all == Scheduled(qhead)
    IN SubSeq(all, 1, Len(all) - Len(uiq))

\* the event is a Line
IsLine(x) == ~IsApi(x) /\ x.tag # "control"

\* the Line is one that belongs in the output list of record r
IsOutputOf(r, x) ==
    /\ IsLine(x)
    /\ x.tag \notin {SYSINFO, SYSWARNING, SYSERROR}
    /\ x.exec_item = r

\* the sequence s without the elements outside the set S
RECURSIVE Only(_, _)
Only(s, S) ==
    IF s = << >> THEN << >>
    ELSE IF Head(s) \in S THEN << Head(s) >> \o Only(Tail(s), S)
    ELSE Only(Tail(s), S)

\* the elements of a sequence
Range(s) == {s[i] : i \in DOMAIN s}

\* C27: the transcript holds every dispatched Line, text and tag, in
\* dispatch order, and the output list of each Execution Record is exactly
\* the dispatched Lines of that record whose tag is not SYSINFO, SYSWARNING
\* or SYSERROR, in dispatch order.
C27_LinesToTranscriptAndRecord ==
    /\ transcript = Only(Dispatched, {x \in Range(Dispatched) : IsLine(x)})
    /\ \A r \in Records :
          rec_out[r] = Only(Dispatched,
                            {x \in Range(Dispatched) : IsOutputOf(r, x)})

\* a record holds a line of its run, and a system line of the same run has
\* gone to the transcript alone
C27_Witness ==
    \E r \in Records :
        /\ rec_out[r] # << >>
        /\ \E i \in 1..Len(transcript) :
              /\ transcript[i].exec_item = r
              /\ transcript[i].tag \in {SYSINFO, SYSWARNING, SYSERROR}
        /\ Len(transcript) > Len(rec_out[r])

\* the decoded envelopes dispatched so far whose handler name is registered,
\* as the calls they should have led to
RECURSIVE CallsDue(_)
CallsDue(s) ==
    IF s = << >> THEN << >>
    ELSE IF IsApi(Head(s)) /\ Head(s).handler \in api_callbacks
    THEN << [handler |-> Head(s).handler, data |-> Head(s).data] >>
         \o CallsDue(Tail(s))
    ELSE CallsDue(Tail(s))

\* the next scheduled call is an envelope whose handler name is not registered
UnknownNext ==
    /\ uiq # << >>
    /\ IsApi(Head(uiq))
    /\ Head(uiq).handler \notin api_callbacks

\* C28: each decoded ProtocolEnvelope is passed once, data unchanged, to the
\* handler registered under its name, and none is written to the transcript
\* or to a record's output; dispatching an envelope whose handler name is
\* not registered changes nothing but the list of scheduled calls.
C28_EnvelopeToHandlerOnce ==
    /\ [](/\ calls = CallsDue(Dispatched)
          /\ \A i \in 1..Len(transcript) : ~IsApi(transcript[i])
          /\ \A r \in Records :
                \A i \in 1..Len(rec_out[r]) : ~IsApi(rec_out[r][i]))
    /\ [][(UnknownNext /\ uiq' = Tail(uiq))
              => UNCHANGED << transcript, rec_out, rec_end, btnContinue,
                              calls, respq, queue, qhead >>]_vars

\* a handler has been called and an envelope without a handler has been
\* dispatched
C28_Witness ==
    /\ calls # << >>
    /\ \E i \in 1..Len(Dispatched) :
          IsApi(Dispatched[i]) /\ Dispatched[i].handler \notin api_callbacks

\* the transcript after the events of s have been applied in order, each
\* once, to the transcript t
RECURSIVE Effect(_, _)
Effect(t, s) ==
    IF s = << >> THEN t
    ELSE IF IsApi(Head(s)) THEN Effect(t, Tail(s))
    ELSE IF Head(s) = Control(CLEAROUTPUT) THEN Effect(<< >>, Tail(s))
    ELSE Effect(Append(t, Head(s)), Tail(s))

\* the clear-transcript events among the events dispatched so far
ClearsDispatched ==
    {i \in 1..Len(Dispatched) : Dispatched[i] = Control(CLEAROUTPUT)}

\* C29: the effects applied so far are those of the events dispatched so
\* far, in the order they were put on the queue and each once: the
\* transcript is what these events make of an empty one, and the transcript
\* has been cleared once for each clear-transcript among them.
C29_QueueOrderEachOnce ==
    /\ transcript = Effect(<< >>, Dispatched)
    /\ nclear = Count(ClearsDispatched)

\* C29, the lines alone: the lines in the transcript are in the order they
\* were put on the queue.
C29_LinesInQueueOrder ==
    \A i, j \in 1..Len(transcript) :
        i < j => \E a, b \in 1..qhead :
                    /\ a < b
                    /\ queue[a] = transcript[i]
                    /\ queue[b] = transcript[j]

\* C30: every use of a widget caused by dispatch or by the completion of a
\* run (transcript insert or clear, progress and status reset, continue
\* button) is made by the UI thread.
C30_WidgetsOnUiThread ==
    \A x \in uiTouch : x.thread = "ui"

\* C30, the scheduled updates: the inserts, the handler calls and the
\* continue button are used by the UI thread only.
C30_ScheduledOnUiThread ==
    \A x \in uiTouch :
        x.op \in {"insert", "button", "setting"} => x.thread = "ui"

\* the child of the sequence's current step is alive
StepProcessAlive == proc["seq"] \in {"running", "suspended"}

\* C31: the steps are started in list order, one further at a time; when the
\* sequence goes on to the next step the child of the step before has
\* exited and its runner has given the slot back, and from the return of
\* run_script to the next spawn no child of the sequence is alive.
C31_StepsOneAtATime ==
    /\ [](pc["seq"] \in {"after_run", "except", "finally", "finally_locked",
                         "after_scope", "create", "create_locked"}
             => ~StepProcessAlive)
    /\ [][step' # step
             => /\ step' = step + 1
                /\ ~StepProcessAlive
                /\ current_runner = 0
                /\ lock # "seq"]_vars

\* the child of the second step is running
C31_Witness ==
    /\ step = 2
    /\ StepProcessAlive
    /\ current_runner = runner["seq"]

\* the system-error events on the queue for the record of step i
StepErrors(i) ==
    {k \in Positions : queue[k].tag = SYSERROR /\ queue[k].exec_item = i}

\* the thread of the sequence has ended with the exception of a step
SequenceRaised == pc["seq"] = "done" /\ raised["seq"] # "none"

\* C32: when an exception was thrown while a step was being executed (the
\* refusal of create_runner included), no later step is started, one
\* system-error event has been enqueued for the failure, and on_finished
\* has been called once.
C32_ExceptionEndsSequence ==
    /\ [](SequenceRaised
             => /\ Count(StepErrors(step)) = 1
                /\ onFinished = 1)
    /\ [][(exc["seq"] # "none" \/ raised["seq"] # "none") => step' = step]_vars

\* C32 without the count of events: an exception of a step ends the
\* sequence, no later step is started and on_finished is called once.
C32_NoLaterStepOneCallback ==
    /\ [](SequenceRaised => onFinished = 1)
    /\ [](onFinished <= 1)
    /\ [][(exc["seq"] # "none" \/ raised["seq"] # "none") => step' = step]_vars

\* C32, the refusal: a sequence whose create_runner was refused ends with
\* no event at all for the step that was refused
C32_RefusalIsSilent ==
    (SequenceRaised /\ raised["seq"] = "RuntimeError")
        => Count(StepErrors(step)) = 0

\* ---------------------------------------------------------------- C33
\* a thread's child process is alive (running or suspended)
ChildAlive(t) == proc[t] \in {"running", "suspended"}

\* C33: the slot is released only on completion.  While the child process a
\* runner spawned is alive, that runner is current_runner, and no other
\* thread has a live child process: whatever path asks for a run (a script
\* chosen in the menu, a step of a sequence, run_script_sync), and whatever
\* is raised inside the scope, the slot is given back only after the child
\* has exited.
C33_SlotHeldWhileChildAlive ==
    \A t \in Threads :
        ChildAlive(t) =>
            /\ current_runner = runner[t]
            /\ \A u \in Threads \ {t} : ~ChildAlive(u)

\* the child of a sequence step is alive while a script of the menu was
\* chosen and run_script_sync has been refused the slot
C33_Witness ==
    /\ ChildAlive("seq")
    /\ current_runner = runner["seq"]
    /\ direct
    /\ raised["sync"] = "RuntimeError"

\* ---------------------------------------------------------------- C34
\* the places where a thread of create_runner holds the lock: between line
\* 53 and line 58, and between line 73 and line 75
LockedPlaces == {"create_locked", "finally_locked"}

\* the step that gives the lock back is ready to be taken by its holder
ReleaseEnabled ==
    IF lock = "ui" THEN ENABLED StopKill
    ELSE ENABLED (CrCheck(lock) \/ FinRelease(lock))

\* C34: the coordinator's lock is released on every exit path of
\* create_runner and stop_current_script, also when terminate() raises, and
\* no thread holds it while it waits for a child process or reads a pipe:
\* a worker holds it only inside the two short blocks of create_runner, the
\* Tk thread only inside terminate(), leaving either gives it back, and the
\* holder can always take that step, so a call of is_running() or
\* stop_current_script() that waits for the lock gets it.
C34_LockReleasedOnEveryPath ==
    /\ [](\A t \in Threads : lock = t => pc[t] \in LockedPlaces)
    /\ [](lock = "ui" => uiPc = "kill")
    /\ [](lock # "free" => ReleaseEnabled)
    /\ [][\A t \in Threads :
            (pc[t] \in LockedPlaces /\ pc'[t] # pc[t]) => lock' = "free"]_vars
    /\ [][(uiPc = "kill" /\ uiPc' # "kill") => lock' = "free"]_vars

\* terminate() has raised out of stop_current_script during a run whose
\* thread is still inside create_runner, and the lock is free
C34_Witness ==
    /\ lastTerm.outcome = "raise"
    /\ uiPc = "idle"
    /\ lock = "free"
    /\ InScope("seq")

\* ---------------------------------------------------------------- C35
\* the run of thread t has put a finished-flagged event for its record
TerminalEnqueued(t) ==
    \E k \in Positions : queue[k].finished /\ queue[k].exec_item = runner[t]

\* the run of thread t is over: its terminal event is in the queue and its
\* runner no longer holds the slot
RunCompleted(t) ==
    /\ pc[t] \notin {"spawn", "reading"}
    /\ TerminalEnqueued(t)
    /\ current_runner # runner[t]

\* C35: every run whose child exits once its output has been read comes to
\* its end: the terminal event is enqueued and the slot is released, also
\* when the child fills the stderr pipe before it closes stdout.
C35_RunCompletes ==
    \A t \in Threads : (pc[t] = "reading") ~> RunCompleted(t)

\* what the code does: a run completes unless its child is blocked on a write
\* to the full stderr pipe, and that child stays blocked
C35_CompletesUnlessStderrFull ==
    /\ \A t \in Threads :
          (pc[t] = "reading") ~> (RunCompleted(t) \/ childWait[t] = "stderr")
    /\ [][\A t \in Threads :
            (childWait[t] = "stderr" /\ proc[t] = "running")
                => (childWait'[t] = "stderr" /\ proc'[t] = "running"
                    /\ pc'[t] = "reading" /\ current_runner' = runner[t])]_vars

\* ---------------------------------------------------------------- C36
\* C36: whenever no runner is active, is_paused() is false.  However the
\* clicks on Pause/Resume and Stop fall among the steps of a run and its
\* completion, the flag a pause set is cleared before the run gives the slot
\* back, a new runner starts with the flag clear, and so the first
\* pause/resume request made of a runner is handled as a pause.
C36_NoPauseFlagWithoutRunner ==
    /\ [](current_runner = 0 => ~is_paused)
    /\ [][(current_runner' # current_runner /\ current_runner' # 0)
            => ~is_paused']_vars
    /\ [][(lastCall' # lastCall /\ lastCall'.runner # lastCall.runner)
            => lastCall'.name = "pause"]_vars

\* a step was paused and resumed, which left the flag set; the step came to
\* its end and the child of a later step runs with the flag clear
C36_Witness ==
    /\ lastCall.prev_name = "pause" /\ lastCall.prev_result = "true"
    /\ lastCall.name = "resume" /\ lastCall.result = "true"
    /\ lastCall.prev_runner = lastCall.runner
    /\ current_runner \notin {0, lastCall.runner}
    /\ proc["seq"] = "running"
    /\ ~is_paused

\* ---------------------------------------------------------------- C37
\* the child of the active runner, alive, is suspended
RootSuspended ==
    current_runner # 0 /\ proc[Owner(current_runner)] = "suspended"

\* the active runner has a child that is alive
RootAlive == current_runner # 0 /\ ChildAlive(Owner(current_runner))

\* C37: while the active runner's child is alive, is_paused() is true
\* exactly when the child is suspended, that is when pause_current_script
\* has suspended it and resume_current_script has not resumed it since; and
\* a pause that returns false leaves the child not suspended.
C37_PausedIffSuspended ==
    /\ [](RootAlive => (is_paused <=> RootSuspended))
    /\ [][(lastCall' # lastCall /\ lastCall'.name = "pause"
           /\ lastCall'.result = "false") => ~RootSuspended']_vars

\* what the code does: a pause that returns true leaves the child suspended
\* and the flag set, and a call that returns false leaves the flag as it was
C37_TrueMeansSuspended ==
    [][lastCall' # lastCall =>
         /\ (lastCall'.name = "pause" /\ lastCall'.result = "true")
                => (is_paused' /\ RootSuspended')
         /\ lastCall'.result # "true" => paused' = paused]_vars

\* a pause has returned false with a descendant gone, and the root is left
\* suspended with the flag clear
C37_RootLeftSuspended ==
    ~(/\ lastCall.name = "pause" /\ lastCall.result = "false"
      /\ RootSuspended /\ ~is_paused)

\* ---------------------------------------------------------------- C38
\* the queue item is a line in which a child asks for a value
IsGetLine(x) ==
    LET m == _normalize_queue_item(x)
    IN /\ IsApi(m)
       /\ m.handler \in {Handler("get", "status"), Handler("", "setting")}

\* the requests the child of runner r has made
GetRequests(r) ==
    {k \in Positions : queue[k].exec_item = r /\ IsGetLine(queue[k])}

\* C38: a response is written to the stdin of the child that made the
\* request and to no other: a living child has been sent no more responses
\* than its runner has made requests, so the child of a runner created after
\* the request gets none of it.
C38_ResponseToRequester ==
    \A t \in Threads :
        ChildAlive(t) => Len(stdin[t]) <= Count(GetRequests(runner[t]))

\* what the code keeps: a response is written to the child of the runner
\* that is current_runner when the delayed callback fires
C38_ResponseToCurrentRunner ==
    [][\A t \in Threads :
         Len(stdin'[t]) > Len(stdin[t]) => current_runner = runner[t]]_vars

\* the child of the sequence's first step has been sent the response to the
\* request of the script that was stopped
C38_ResponseToNextRunner ==
    ~(/\ ChildAlive("seq") /\ stdin["seq"] # << >>
      /\ lastTerm.runner = runner["sync"]
      /\ GetRequests(runner["seq"]) = {})

\* ---------------------------------------------------------------- C39
\* the finished-flagged events on the queue that carry record r
FinishedEvents(r) ==
    {k \in Positions : queue[k].finished /\ queue[k].exec_item = r}

\* C39: every execution record is filed into the history list at most once,
\* and at most one finished-flagged event is on the queue for it.
C39_FiledAtMostOnce ==
    \A r \in Records : Count(FinishedEvents(r)) <= 1 /\ rec_end[r] <= 1

\* what the code keeps: the waiter's terminal event and the event of a failed
\* spawn never both occur for a record; it is the event of the except clause
\* that comes on top of either
C39_OneEventFromTheRunner ==
    \A r \in Records :
        Count({k \in FinishedEvents(r) : queue[k].line # "Exception"}) <= 1

\* a record has been filed twice
C39_FiledTwice == ~(\E r \in Records : rec_end[r] >= 2)

\* ---------------------------------------------------------------- C40
\* the child of thread t reads a frame that was in its stdin before it asked
ReadsStaleFrame(t) ==
    /\ Cardinality(GetStatusCalls(t))' > Cardinality(GetStatusCalls(t))
    /\ UnreadFrames(t) > 0

\* C40: the host writes a frame to a child's stdin only while the child is
\* blocked in a get request, so no set_status() makes it write one, and a
\* get_status() never finds a frame written before the call.
C40_ResponseOnlyToWaitingChild ==
    /\ [][\A t \in Threads :
            Len(stdin'[t]) > Len(stdin[t]) => childWait[t] = "response"]_vars
    /\ [][\A t \in Threads : ~ReadsStaleFrame(t)]_vars

\* what the code keeps: a frame is written to a child only after a message
\* of its runner that is dispatched to get_status or setting has been taken
\* from the queue, whichever entry point sent it
C40_ResponsePerGetMessage ==
    [][\A t \in Threads :
         Len(stdin'[t]) > Len(stdin[t])
         => \E k \in 1..qhead : /\ queue[k].exec_item = runner[t]
                                /\ IsGetLine(queue[k])]_vars

\* a get_status() has returned with a frame written for a set_status("get")
C40_StaleRead ==
    [][\A t \in Threads : ~(ReadsStaleFrame(t) /\ childWait'[t] = "no")]_vars

====
